---- MODULE Spec2Model ----
(***************************************************************************)
(* Body-based router (BBR) plugin engine: the plugin registry, the plugin  *)
(* chain with its shared parsed-body cache, and HandleRequestBody of the   *)
(* pluggable ext_proc server.                                              *)
(*                                                                         *)
(* Go maps are functions over a finite domain, slices are sequences, a nil *)
(* error is the string Nil.  A request body is a record that says whether  *)
(* the bytes are a JSON object, malformed or empty, and which fields the   *)
(* object holds.  An endpoint path is the sequence of its segments.        *)
(***************************************************************************)
EXTENDS Integers, Sequences, FiniteSets, TLC

VARIABLES
    pluginsFactory,        \* pluginRegistry.pluginsFactory: type key -> factory
    plugins,               \* pluginRegistry.plugins: type key -> instance
    chainPlugins,          \* pluginsChain.plugins: sequence of type keys
    sharedChatCompletion,  \* pluginsChain.sharedChatCompletion
    sharedCompletion,      \* pluginsChain.sharedCompletion
    server,                \* Server fields read by HandleRequestBody
    req,                   \* per call of HandleRequestBody: locals and outcome
    opRes,                 \* last registry/chain operation and what it returned
    env,                   \* the environment variables InitPlugins reads
    initPlugins,           \* what InitPlugins returned besides registry and request chain
    execCall,              \* a call of a payload processor's Execute: arguments and results
    bodyCall               \* a call of handlers.HandleRequestBody: arguments, locals, results

vars == <<pluginsFactory, plugins, chainPlugins, sharedChatCompletion,
          sharedCompletion, server, req, opRes, env, initPlugins,
          execCall, bodyCall>>

initVars == <<env, initPlugins>>
callVars == <<execCall, bodyCall>>

registryVars == <<pluginsFactory, plugins>>
chainVars == <<chainPlugins, sharedChatCompletion, sharedCompletion>>

----------------------------------------------------------------------------
(* Bounds *)

MaxChainLen == 2

----------------------------------------------------------------------------
(* Values *)

Nil == "nil"

EmptyMap == [k \in {} |-> ""]

ModelHeader == "X-Gateway-Model-Name"

ModelHeaderKey == "model"

DefaultPluginType == "MetadataExtractor"

SupportedInterfaces ==
    [t \in {"ModelSelector", "GuardRail", "MetadataExtractor"} |->
        CASE t = "ModelSelector" -> {"semantic-model-selector"}
          [] t = "GuardRail" -> {"bad-words-blocker", "pid-disclosure-blocker"}
          [] t = "MetadataExtractor" -> {"simple-model-extractor"}]

\* A plugin instance: its TypedName, what RequiresFullParsing() answers, the
\* capability interface it implements and the implementation behind it.
Plugin(type, name, iface, impl, rfp) ==
    [Type |-> type, Name |-> name, iface |-> iface, impl |-> impl,
     requiresFullParsing |-> rfp]

NilPlugin == Plugin("", "", "none", "nil", FALSE)

NewSimpleModelExtractor ==
    Plugin("MetadataExtractor", "simple-model-extractor", "MetadataExtractor",
           "simpleModelExtractor", FALSE)

\* Other implementations of the plugin interfaces (the repository has none
\* under src/): they answer Extract/Select with any result the interface allows.
FullParsingExtractor ==
    Plugin("MetadataExtractor", "simple-model-extractor", "MetadataExtractor",
           "other", TRUE)

SemanticModelSelector ==
    Plugin("ModelSelector", "semantic-model-selector", "ModelSelector",
           "other", TRUE)

BadWordsBlocker ==
    Plugin("GuardRail", "bad-words-blocker", "none", "other", FALSE)

PidDisclosureBlocker ==
    Plugin("GuardRail", "pid-disclosure-blocker", "none", "other", TRUE)

ExtractMetadataByKeys ==
    Plugin("MetadataExtractor", "extract-metadata-bykeys", "MetadataExtractor",
           "other", FALSE)

BodyFieldToHeader ==
    Plugin("body-field-to-header", "body-field-to-header", "none", "other", FALSE)

SupportedPlugins ==
    {NewSimpleModelExtractor, FullParsingExtractor, SemanticModelSelector,
     BadWordsBlocker, PidDisclosureBlocker}

UnsupportedPlugins == {ExtractMetadataByKeys, BodyFieldToHeader}

\* A factory is named by its constructor; FactoryProduct is what factory() returns.
FactoryProduct(f) ==
    CASE f = "NewSimpleModelExtractor" -> NewSimpleModelExtractor
      [] f = "NewSemanticModelSelector" -> SemanticModelSelector
      [] f = "NewBadWordsBlocker" -> BadWordsBlocker

----------------------------------------------------------------------------
(* Request bodies and the parsed shapes *)

Body(json, model, prompt) == [json |-> json, model |-> model, prompt |-> prompt]

EmptyBody == Body("empty", "", "")
MalformedBody == Body("malformed", "", "")
BodyFoo == Body("object", "foo", "hi")
BodyBar == Body("object", "bar", "hi")
BodyNoModel == Body("object", "", "hi")
BodyRewritten == Body("object", "base", "hi")

RequestBodies == {BodyFoo, BodyBar, BodyNoModel, MalformedBody}

BodyLen(b) == IF b.json = "empty" THEN 0 ELSE 1

EndpointCompletions == <<"v1", "completions">>
EndpointChatCompletions == <<"v1", "chat", "completions">>
EndpointEmbeddings == <<"v1", "embeddings">>

Endpoints == {EndpointCompletions, EndpointChatCompletions, EndpointEmbeddings}

\* strings.Contains on paths, segment by segment
Contains(s, sub) ==
    \E k \in 0..(Len(s) - Len(sub)) : SubSeq(s, k + 1, k + Len(sub)) = sub

Shape(kind, model, content) == [shape |-> kind, Model |-> model, content |-> content]

NilShared == Shape("nil", "", "")
ZeroCompletion == Shape("CompletionNewParams", "", "")
ZeroChatCompletion == Shape("ChatCompletionNewParams", "", "")

\* UnmarshalJSON of a body into the shape of the given kind
Unmarshal(kind, data) ==
    IF data.json = "object"
    THEN [err |-> Nil, value |-> Shape(kind, data.model, data.prompt)]
    ELSE [err |-> "unmarshal error", value |-> NilShared]

----------------------------------------------------------------------------
(* Plugin registry *)

Put(m, k, v) == [x \in DOMAIN m \cup {k} |-> IF x = k THEN v ELSE m[x]]

Delete(m, k) == [x \in DOMAIN m \ {k} |-> m[x]]

OpRes(op, key, name, err) == [op |-> op, key |-> key, name |-> name, err |-> err]

\* mutation: the type key is not looked up in SupportedInterfaces
RegisterFactoryTypeUnchecked(typeKey, factory) ==
    /\ pluginsFactory' = Put(pluginsFactory, typeKey, factory)
    /\ opRes' = OpRes("RegisterFactory", typeKey, factory, Nil)
    /\ UNCHANGED <<plugins, chainVars, server, req, initVars, callVars>>

RegisterFactory(typeKey, factory) ==
    IF typeKey \notin DOMAIN SupportedInterfaces
    THEN /\ opRes' = OpRes("RegisterFactory", typeKey, factory,
                           "non-supported plugin interface type")
         /\ UNCHANGED <<registryVars, chainVars, server, req, initVars, callVars>>
    ELSE /\ pluginsFactory' = Put(pluginsFactory, typeKey, factory)
         /\ opRes' = OpRes("RegisterFactory", typeKey, factory, Nil)
         /\ UNCHANGED <<plugins, chainVars, server, req, initVars, callVars>>

RegisterPluginNameUnchecked(plugin) ==
    LET t == plugin.Type IN
    IF t \notin DOMAIN SupportedInterfaces
    THEN /\ opRes' = OpRes("RegisterPlugin", t, plugin.Name,
                           "non-supported plugin interface type")
         /\ UNCHANGED <<registryVars, chainVars, server, req, initVars, callVars>>
    ELSE IF t \notin DOMAIN pluginsFactory
    THEN /\ opRes' = OpRes("RegisterPlugin", t, plugin.Name,
                           "no plugin factory registered for plugin interface type")
         /\ UNCHANGED <<registryVars, chainVars, server, req, initVars, callVars>>
    ELSE /\ plugins' = Put(plugins, t, plugin)
         /\ opRes' = OpRes("RegisterPlugin", t, plugin.Name,
                           IF plugin.Name \in SupportedInterfaces[t] THEN Nil
                           ELSE "no implementation for plugin interface type")
         /\ UNCHANGED <<pluginsFactory, chainVars, server, req, initVars, callVars>>

\* mutation: the factory of the type is not required
RegisterPluginFactoryUnchecked(plugin) ==
    LET t == plugin.Type IN
    IF t \notin DOMAIN SupportedInterfaces
    THEN /\ opRes' = OpRes("RegisterPlugin", t, plugin.Name,
                           "non-supported plugin interface type")
         /\ UNCHANGED <<registryVars, chainVars, server, req, initVars, callVars>>
    ELSE IF SupportedInterfaces[t] = {} \/ plugin.Name \notin SupportedInterfaces[t]
    THEN /\ opRes' = OpRes("RegisterPlugin", t, plugin.Name,
                           "no implementation for plugin interface type")
         /\ UNCHANGED <<registryVars, chainVars, server, req, initVars, callVars>>
    ELSE /\ plugins' = Put(plugins, t, plugin)
         /\ opRes' = OpRes("RegisterPlugin", t, plugin.Name, Nil)
         /\ UNCHANGED <<pluginsFactory, chainVars, server, req, initVars, callVars>>

\* mutation: an instance already registered for the type is kept
RegisterPluginKeepFirst(plugin) ==
    LET t == plugin.Type IN
    IF t \notin DOMAIN SupportedInterfaces
    THEN /\ opRes' = OpRes("RegisterPlugin", t, plugin.Name,
                           "non-supported plugin interface type")
         /\ UNCHANGED <<registryVars, chainVars, server, req, initVars, callVars>>
    ELSE IF SupportedInterfaces[t] = {} \/ plugin.Name \notin SupportedInterfaces[t]
    THEN /\ opRes' = OpRes("RegisterPlugin", t, plugin.Name,
                           "no implementation for plugin interface type")
         /\ UNCHANGED <<registryVars, chainVars, server, req, initVars, callVars>>
    ELSE IF t \notin DOMAIN pluginsFactory
    THEN /\ opRes' = OpRes("RegisterPlugin", t, plugin.Name,
                           "no plugin factory registered for plugin interface type")
         /\ UNCHANGED <<registryVars, chainVars, server, req, initVars, callVars>>
    ELSE /\ plugins' = IF t \in DOMAIN plugins THEN plugins ELSE Put(plugins, t, plugin)
         /\ opRes' = OpRes("RegisterPlugin", t, plugin.Name, Nil)
         /\ UNCHANGED <<pluginsFactory, chainVars, server, req, initVars, callVars>>

RegisterPlugin(plugin) ==
    LET t == plugin.Type IN
    IF t \notin DOMAIN SupportedInterfaces
    THEN /\ opRes' = OpRes("RegisterPlugin", t, plugin.Name,
                           "non-supported plugin interface type")
         /\ UNCHANGED <<registryVars, chainVars, server, req, initVars, callVars>>
    ELSE IF SupportedInterfaces[t] = {} \/ plugin.Name \notin SupportedInterfaces[t]
    THEN /\ opRes' = OpRes("RegisterPlugin", t, plugin.Name,
                           "no implementation for plugin interface type")
         /\ UNCHANGED <<registryVars, chainVars, server, req, initVars, callVars>>
    ELSE IF t \notin DOMAIN pluginsFactory
    THEN /\ opRes' = OpRes("RegisterPlugin", t, plugin.Name,
                           "no plugin factory registered for plugin interface type")
         /\ UNCHANGED <<registryVars, chainVars, server, req, initVars, callVars>>
    ELSE /\ plugins' = Put(plugins, t, plugin)
         /\ opRes' = OpRes("RegisterPlugin", t, plugin.Name, Nil)
         /\ UNCHANGED <<pluginsFactory, chainVars, server, req, initVars, callVars>>

\* registry GetPlugin / GetFactory / CreatePlugin: pure lookups
RegistryGetPlugin(typeKey) ==
    IF typeKey \in DOMAIN plugins
    THEN [plugin |-> plugins[typeKey], err |-> Nil]
    ELSE [plugin |-> NilPlugin, err |-> "plugin type not found"]

GetFactory(typeKey) ==
    IF typeKey \in DOMAIN pluginsFactory
    THEN [factory |-> pluginsFactory[typeKey], err |-> Nil]
    ELSE [factory |-> "", err |-> "plugin type not found"]

CreatePlugin(typeKey) ==
    IF typeKey \in DOMAIN pluginsFactory
    THEN [plugin |-> FactoryProduct(pluginsFactory[typeKey]), err |-> Nil]
    ELSE [plugin |-> NilPlugin, err |-> "plugin not registered"]

\* a call of the registry's CreatePlugin: opRes keeps the type key, the name
\* of the instance the factory made and the error
CreatePluginCall(typeKey) ==
    /\ opRes' = OpRes("CreatePlugin", typeKey, CreatePlugin(typeKey).plugin.Name,
                      CreatePlugin(typeKey).err)
    /\ UNCHANGED <<registryVars, chainVars, server, req, initVars, callVars>>

\* mutation: removing a factory removes the instance of its type as well
UnregisterFactoryDropsInstance(typeKey) ==
    IF typeKey \in DOMAIN pluginsFactory
    THEN /\ pluginsFactory' = Delete(pluginsFactory, typeKey)
         /\ plugins' = Delete(plugins, typeKey)
         /\ opRes' = OpRes("UnregisterFactory", typeKey, "", Nil)
         /\ UNCHANGED <<chainVars, server, req, initVars, callVars>>
    ELSE /\ opRes' = OpRes("UnregisterFactory", typeKey, "", "plugin not found")
         /\ UNCHANGED <<registryVars, chainVars, server, req, initVars, callVars>>

UnregisterFactory(typeKey) ==
    IF typeKey \in DOMAIN pluginsFactory
    THEN /\ pluginsFactory' = Delete(pluginsFactory, typeKey)
         /\ opRes' = OpRes("UnregisterFactory", typeKey, "", Nil)
         /\ UNCHANGED <<plugins, chainVars, server, req, initVars, callVars>>
    ELSE /\ opRes' = OpRes("UnregisterFactory", typeKey, "", "plugin not found")
         /\ UNCHANGED <<registryVars, chainVars, server, req, initVars, callVars>>

UnregisterPlugin(typeKey) ==
    IF typeKey \in DOMAIN plugins
    THEN /\ plugins' = Delete(plugins, typeKey)
         /\ opRes' = OpRes("UnregisterPlugin", typeKey, "", Nil)
         /\ UNCHANGED <<pluginsFactory, chainVars, server, req, initVars, callVars>>
    ELSE /\ opRes' = OpRes("UnregisterPlugin", typeKey, "", "plugin not found")
         /\ UNCHANGED <<registryVars, chainVars, server, req, initVars, callVars>>

ListPlugins == DOMAIN plugins

ListFactories == DOMAIN pluginsFactory

\* mutation: only the factory map is reset
ClearFactoriesOnly ==
    /\ pluginsFactory' = EmptyMap
    /\ opRes' = OpRes("Clear", "", "", Nil)
    /\ UNCHANGED <<plugins, chainVars, server, req, initVars, callVars>>

Clear ==
    /\ pluginsFactory' = EmptyMap
    /\ plugins' = EmptyMap
    /\ opRes' = OpRes("Clear", "", "", Nil)
    /\ UNCHANGED <<chainVars, server, req, initVars, callVars>>

ContainsFactory(typeKey) == typeKey \in DOMAIN pluginsFactory

ContainsPlugin(typeKey) == typeKey \in DOMAIN plugins

----------------------------------------------------------------------------
(* Plugin chain *)

\* mutation: the type's factory is looked up instead of its instance
AddPluginChecksFactory(typeKey) ==
    /\ Len(chainPlugins) < MaxChainLen
    /\ IF ~ContainsFactory(typeKey)
       THEN /\ opRes' = OpRes("AddPlugin", typeKey, "", "plugin type not found")
            /\ UNCHANGED <<registryVars, chainVars, server, req, initVars, callVars>>
       ELSE /\ chainPlugins' = Append(chainPlugins, typeKey)
            /\ opRes' = OpRes("AddPlugin", typeKey, "", Nil)
            /\ UNCHANGED <<registryVars, sharedChatCompletion, sharedCompletion,
                           server, req, initVars, callVars>>

AddPlugin(typeKey) ==
    /\ Len(chainPlugins) < MaxChainLen
    /\ IF ~ContainsPlugin(typeKey)
       THEN /\ opRes' = OpRes("AddPlugin", typeKey, "", "plugin type not found")
            /\ UNCHANGED <<registryVars, chainVars, server, req, initVars, callVars>>
       ELSE /\ chainPlugins' = Append(chainPlugins, typeKey)
            /\ opRes' = OpRes("AddPlugin", typeKey, "", Nil)
            /\ UNCHANGED <<registryVars, sharedChatCompletion, sharedCompletion,
                           server, req, initVars, callVars>>

\* index of the first occurrence of p in the chain (1-based), 0 when absent
FirstIndex(p) ==
    IF \E i \in 1..Len(chainPlugins) : chainPlugins[i] = p
    THEN CHOOSE i \in 1..Len(chainPlugins) :
            /\ chainPlugins[i] = p
            /\ \A j \in 1..(i - 1) : chainPlugins[j] # p
    ELSE 0

\* mutation: the deleted type's instance is dropped from the registry too
DeletePluginUnregisters(p) ==
    LET i == FirstIndex(p) IN
    IF i = 0
    THEN /\ opRes' = OpRes("DeletePlugin", p, "", "plugin not found in chain")
         /\ UNCHANGED <<registryVars, chainVars, server, req, initVars, callVars>>
    ELSE /\ chainPlugins' = SubSeq(chainPlugins, 1, i - 1)
                              \o SubSeq(chainPlugins, i + 1, Len(chainPlugins))
         /\ plugins' = Delete(plugins, p)
         /\ opRes' = OpRes("DeletePlugin", p, "", Nil)
         /\ UNCHANGED <<pluginsFactory, sharedChatCompletion, sharedCompletion,
                        server, req, initVars, callVars>>

\* mutation: every occurrence of the type is removed
DeletePluginAll(p) ==
    LET i == FirstIndex(p) IN
    IF i = 0
    THEN /\ opRes' = OpRes("DeletePlugin", p, "", "plugin not found in chain")
         /\ UNCHANGED <<registryVars, chainVars, server, req, initVars, callVars>>
    ELSE /\ chainPlugins' = SelectSeq(chainPlugins, LAMBDA x : x # p)
         /\ opRes' = OpRes("DeletePlugin", p, "", Nil)
         /\ UNCHANGED <<registryVars, sharedChatCompletion, sharedCompletion,
                        server, req, initVars, callVars>>

DeletePlugin(p) ==
    LET i == FirstIndex(p) IN
    IF i = 0
    THEN /\ opRes' = OpRes("DeletePlugin", p, "", "plugin not found in chain")
         /\ UNCHANGED <<registryVars, chainVars, server, req, initVars, callVars>>
    ELSE /\ chainPlugins' = SubSeq(chainPlugins, 1, i - 1)
                              \o SubSeq(chainPlugins, i + 1, Len(chainPlugins))
         /\ opRes' = OpRes("DeletePlugin", p, "", Nil)
         /\ UNCHANGED <<registryVars, sharedChatCompletion, sharedCompletion,
                        server, req, initVars, callVars>>

\* mutation: the registry lookup's ok flag is ignored
GetPluginNoOkCheck(index) ==
    IF index < 0 \/ index >= Len(chainPlugins)
    THEN [plugin |-> NilPlugin, err |-> "plugin index out of range"]
    ELSE IF chainPlugins[index + 1] \notin DOMAIN plugins
    THEN [plugin |-> NilPlugin, err |-> Nil]
    ELSE [plugin |-> plugins[chainPlugins[index + 1]], err |-> Nil]

\* chain GetPlugin(index, registry); index counts from 0 as in the source
GetPlugin(index) ==
    IF index < 0 \/ index >= Len(chainPlugins)
    THEN [plugin |-> NilPlugin, err |-> "plugin index out of range"]
    ELSE IF chainPlugins[index + 1] \notin DOMAIN plugins
    THEN [plugin |-> NilPlugin, err |-> "plugin index is not found in the registry"]
    ELSE [plugin |-> plugins[chainPlugins[index + 1]], err |-> Nil]

\* a call of the chain's GetPlugin: opRes keeps the index asked for, the name of
\* the instance returned and the error
GetPluginCall(index) ==
    /\ opRes' = OpRes("GetPlugin", ToString(index), GetPlugin(index).plugin.Name,
                      GetPlugin(index).err)
    /\ UNCHANGED <<registryVars, chainVars, server, req, initVars, callVars>>

Length == Len(chainPlugins)

\* AddPluginAtInd reads pc.plugins[i] before inserting: with i = len(pc.plugins)
\* the read is out of range and the call panics.
AddPluginAtInd(typeKey, i) ==
    /\ Len(chainPlugins) < MaxChainLen
    /\ IF i < 0 \/ i > Len(chainPlugins)
       THEN /\ opRes' = OpRes("AddPluginAtInd", typeKey, ToString(i),
                              "index is out of range")
            /\ UNCHANGED <<registryVars, chainVars, server, req, initVars, callVars>>
       ELSE IF i = Len(chainPlugins)
       THEN /\ opRes' = OpRes("AddPluginAtInd", typeKey, ToString(i), "panic")
            /\ UNCHANGED <<registryVars, chainVars, server, req, initVars, callVars>>
       ELSE IF chainPlugins[i + 1] \notin DOMAIN plugins
       THEN /\ opRes' = OpRes("AddPluginAtInd", typeKey, ToString(i),
                              "plugin index is not found in the registry")
            /\ UNCHANGED <<registryVars, chainVars, server, req, initVars, callVars>>
       ELSE /\ chainPlugins' = SubSeq(chainPlugins, 1, i) \o <<typeKey>>
                                 \o SubSeq(chainPlugins, i + 1, Len(chainPlugins))
            /\ opRes' = OpRes("AddPluginAtInd", typeKey, ToString(i), Nil)
            /\ UNCHANGED <<registryVars, sharedChatCompletion, sharedCompletion,
                           server, req, initVars, callVars>>

\* ParseChatCompletion / ParseCompletion: unmarshal into the chain's cached
\* shape of that kind; cur is the cached shape before the call.
ParseChatCompletion(data, cur) ==
    LET u == Unmarshal("ChatCompletionNewParams", data) IN
    IF u.err # Nil THEN [err |-> u.err, value |-> cur]
    ELSE [err |-> Nil, value |-> u.value]

ParseCompletion(data, cur) ==
    LET u == Unmarshal("CompletionNewParams", data) IN
    IF u.err # Nil THEN [err |-> u.err, value |-> cur]
    ELSE [err |-> Nil, value |-> u.value]

\* mutation: the two cached shapes are handed out under each other's key
GetSharedMemorySwapped(which) ==
    IF which = "/v1/completions" THEN sharedChatCompletion
    ELSE IF which = "/v1/chat/completions" THEN sharedCompletion
    ELSE NilShared

GetSharedMemory(which) ==
    IF which = "/v1/completions" THEN sharedCompletion
    ELSE IF which = "/v1/chat/completions" THEN sharedChatCompletion
    ELSE NilShared

----------------------------------------------------------------------------
(* Plugin contracts: Extract and Select *)

HeaderNames == {"H", ModelHeader}

\* header maps an implementation may return: H is "a" or "b", the model
\* header is "foo" or the empty string, either may be missing
PluginHeaders ==
    {h \in UNION {[S -> {"a", "b", "foo", ""}] : S \in SUBSET HeaderNames} :
        /\ "H" \in DOMAIN h => h["H"] \in {"a", "b"}
        /\ ModelHeader \in DOMAIN h => h[ModelHeader] \in {"foo", ""}}

\* simpleModelExtractor.Extract
Extract(requestBodyBytes, sharedMemory) ==
    LET defaultImpl ==
            IF requestBodyBytes.json = "object"
            THEN [headers |-> [k \in {ModelHeaderKey} |-> requestBodyBytes.model],
                  err |-> Nil]
            ELSE [headers |-> EmptyMap, err |-> "unmarshal error"]
    IN  IF sharedMemory.shape \in {"ChatCompletionNewParams", "CompletionNewParams"}
        THEN IF sharedMemory.Model # ""
             THEN [headers |-> [k \in {ModelHeaderKey} |-> sharedMemory.Model],
                   err |-> Nil]
             ELSE defaultImpl
        ELSE [headers |-> EmptyMap, err |-> "unsupported shared memory type"]

\* what a call of plugin.Extract / plugin.Select may return
Out(kind, headers, body, err, sharedMemory) ==
    [kind |-> kind, headers |-> headers, mutatedBodyBytes |-> body, err |-> err,
     sharedMemory |-> sharedMemory]

NoOut == Out("none", EmptyMap, EmptyBody, Nil, NilShared)

ExtractResults(plugin, requestBodyBytes, sharedMemory) ==
    IF plugin.impl = "simpleModelExtractor"
    THEN LET e == Extract(requestBodyBytes, sharedMemory) IN
         {Out("Extract", e.headers, EmptyBody, e.err, sharedMemory)}
    ELSE {Out("Extract", h, EmptyBody, Nil, sharedMemory) : h \in PluginHeaders}
           \cup {Out("Extract", EmptyMap, EmptyBody, "extract error", sharedMemory)}

SelectResults(plugin, requestBodyBytes, sharedMemory) ==
    {Out("Select", h, b, Nil, sharedMemory) :
        h \in PluginHeaders, b \in {requestBodyBytes, BodyRewritten, EmptyBody}}
      \cup {Out("Select", EmptyMap, EmptyBody, "select error", sharedMemory)}

----------------------------------------------------------------------------
(* helpers.MergeMaps *)

MergeMapsOverwrite(dst, src) ==
    [k \in DOMAIN dst \cup DOMAIN src |-> IF k \in DOMAIN src THEN src[k] ELSE dst[k]]

MergeMaps(dst, src) ==
    [k \in DOMAIN dst \cup DOMAIN src |-> IF k \in DOMAIN dst THEN dst[k] ELSE src[k]]

----------------------------------------------------------------------------
(* Protocol responses *)

NoBodyMutation == [type |-> "none", body |-> EmptyBody, endOfStream |-> FALSE]

BodyMutation_Body(b) == [type |-> "Body", body |-> b, endOfStream |-> FALSE]

BodyMutation_StreamedResponse(b) ==
    [type |-> "StreamedResponse", body |-> b, endOfStream |-> TRUE]

\* a ProcessingResponse: its kind, and ClearRouteCache, HeaderMutation.SetHeaders
\* and BodyMutation of its CommonResponse (the zero values when Response is nil)
ProcessingResponse(kind, clear, setHeaders, bodyMutation) ==
    [kind |-> kind, clearRouteCache |-> clear, setHeaders |-> setHeaders,
     bodyMutation |-> bodyMutation]

addStreamedBodyResponse(responses, requestBodyBytes) ==
    Append(responses,
           ProcessingResponse("RequestBody", FALSE, <<>>,
                              BodyMutation_StreamedResponse(requestBodyBytes)))

----------------------------------------------------------------------------
(* HandleRequestBody of the pluggable server *)

Requests == {"r1", "r2"}

\* locals and outcome of one call; parseCalls, executed, lastOut and the
\* counters record what the call did (parse operations invoked, chain
\* positions whose Extract/Select ran, the latest plugin result, metrics);
\* modelNotParsedCounter is the malformed-body metric, which this handler
\* has no call of
IdleReq ==
    [pc |-> "idle", body |-> EmptyBody, mutatedBodyBytes |-> EmptyBody,
     which |-> "", i |-> 0, allHeaders |-> EmptyMap,
     ret |-> <<>>, err |-> Nil, panicked |-> FALSE,
     parseCalls |-> <<>>, executed |-> <<>>, lastOut |-> NoOut,
     successCounter |-> 0, modelNotInBodyCounter |-> 0,
     modelNotParsedCounter |-> 0]

ScanState(err, which, calls, completion, chat) ==
    [err |-> err, which |-> which, parseCalls |-> calls,
     sharedCompletion |-> completion, sharedChatCompletion |-> chat]

\* the parse switch of the first loop, for the plugin that requires full parsing
ParseForEndpoint(data, st) ==
    IF Contains(server.endpoint, EndpointCompletions)
    THEN LET p == ParseCompletion(data, st.sharedCompletion) IN
         ScanState(p.err, IF p.err = Nil THEN "/v1/completions" ELSE st.which,
                   Append(st.parseCalls, "ParseCompletion"),
                   p.value, st.sharedChatCompletion)
    ELSE IF Contains(server.endpoint, EndpointChatCompletions)
    THEN LET p == ParseChatCompletion(data, st.sharedChatCompletion) IN
         ScanState(p.err, IF p.err = Nil THEN "/v1/chat/completions" ELSE st.which,
                   Append(st.parseCalls, "ParseChatCompletion"),
                   st.sharedCompletion, p.value)
    ELSE st

\* mutation: no break after the first plugin that requires full parsing
RECURSIVE ScanChainNoBreak(_, _, _)
ScanChainNoBreak(i, data, st) ==
    IF i >= Length \/ st.err # Nil THEN st
    ELSE LET g == GetPlugin(i) IN
         IF g.err # Nil THEN ScanChainNoBreak(i + 1, data, st)
         ELSE IF g.plugin.requiresFullParsing
         THEN ScanChainNoBreak(i + 1, data, ParseForEndpoint(data, st))
         ELSE ScanChainNoBreak(i + 1, data, st)

\* mutation: RequiresFullParsing() is not consulted
RECURSIVE ScanChainAlwaysParse(_, _, _)
ScanChainAlwaysParse(i, data, st) ==
    IF i >= Length THEN st
    ELSE LET g == GetPlugin(i) IN
         IF g.err # Nil THEN ScanChainAlwaysParse(i + 1, data, st)
         ELSE ParseForEndpoint(data, st)

\* mutation: only the first chain entry is asked whether it requires full parsing
ScanChainFirstEntryOnly(i, data, st) ==
    IF i >= Length THEN st
    ELSE LET g == GetPlugin(i) IN
         IF g.err # Nil THEN st
         ELSE IF g.plugin.requiresFullParsing
         THEN ParseForEndpoint(data, st)
         ELSE st

\* the first loop: from chain position i on, find the first resolvable plugin
\* that requires full parsing, parse for it and stop
RECURSIVE ScanChain(_, _, _)
ScanChain(i, data, st) ==
    IF i >= Length THEN st
    ELSE LET g == GetPlugin(i) IN
         IF g.err # Nil THEN ScanChain(i + 1, data, st)
         ELSE IF g.plugin.requiresFullParsing
         THEN ParseForEndpoint(data, st)
         ELSE ScanChain(i + 1, data, st)

\* return nil, err
ReturnError(q, err) ==
    [q EXCEPT !.pc = "done", !.ret = <<>>, !.err = err]

\* call and first loop: the request enters the second loop unless a parse failed
HandleRequestBody(r, requestBodyBytes) ==
    /\ req[r].pc = "idle"
    /\ LET st == ScanChain(0, requestBodyBytes,
                           ScanState(Nil, "", <<>>, sharedCompletion,
                                     sharedChatCompletion))
           q == [IdleReq EXCEPT !.body = requestBodyBytes,
                                !.mutatedBodyBytes = requestBodyBytes,
                                !.which = st.which,
                                !.parseCalls = st.parseCalls]
       IN  /\ sharedCompletion' = st.sharedCompletion
           /\ sharedChatCompletion' = st.sharedChatCompletion
           /\ req' = [req EXCEPT ![r] =
                        IF st.err # Nil THEN ReturnError(q, st.err)
                        ELSE [q EXCEPT !.pc = "exec"]]
    /\ UNCHANGED <<registryVars, chainPlugins, server, opRes, initVars, callVars>>

\* what the plugin at the current chain position may answer
PluginResults(plugin, q) ==
    IF plugin.Type = "MetadataExtractor" /\ plugin.iface = "MetadataExtractor"
    THEN ExtractResults(plugin, q.body, GetSharedMemory(q.which))
    ELSE IF plugin.Type = "ModelSelector" /\ plugin.iface = "ModelSelector"
    THEN SelectResults(plugin, q.body, GetSharedMemory(q.which))
    ELSE {NoOut}

\* mutation: the empty mutated body is not rejected
RunPluginNoEmptyCheck(q, out) ==
    LET ran == [q EXCEPT !.executed = Append(@, q.i), !.lastOut = out] IN
    IF out.kind = "none" THEN [q EXCEPT !.i = @ + 1, !.lastOut = out]
    ELSE IF out.err # Nil THEN ReturnError(ran, out.err)
    ELSE [ran EXCEPT !.i = @ + 1,
                     !.allHeaders = MergeMaps(q.allHeaders, out.headers),
                     !.mutatedBodyBytes =
                         IF out.kind = "Select" THEN out.mutatedBodyBytes ELSE @]

\* mutation: a plugin that failed is invoked a second time before giving up
RunPluginRetry(q, out) ==
    LET ran == [q EXCEPT !.executed = Append(@, q.i), !.lastOut = out] IN
    IF out.kind = "none" THEN [q EXCEPT !.i = @ + 1, !.lastOut = out]
    ELSE IF out.err # Nil
    THEN IF \E k \in 1..Len(q.executed) : q.executed[k] = q.i
         THEN ReturnError(ran, out.err)
         ELSE ran
    ELSE IF out.kind = "Select" /\ BodyLen(out.mutatedBodyBytes) = 0
    THEN ReturnError([ran EXCEPT !.mutatedBodyBytes = out.mutatedBodyBytes],
                     "empty mutated body bytes slice returned from plugin")
    ELSE [ran EXCEPT !.i = @ + 1,
                     !.allHeaders = MergeMaps(q.allHeaders, out.headers),
                     !.mutatedBodyBytes =
                         IF out.kind = "Select" THEN out.mutatedBodyBytes ELSE @]

\* mutation: a plugin's error is dropped and the loop goes on
RunPluginContinuesOnError(q, out) ==
    LET ran == [q EXCEPT !.executed = Append(@, q.i), !.lastOut = out] IN
    IF out.kind = "none" THEN [q EXCEPT !.i = @ + 1, !.lastOut = out]
    ELSE IF out.err # Nil THEN [ran EXCEPT !.i = @ + 1]
    ELSE IF out.kind = "Select" /\ BodyLen(out.mutatedBodyBytes) = 0
    THEN ReturnError([ran EXCEPT !.mutatedBodyBytes = out.mutatedBodyBytes],
                     "empty mutated body bytes slice returned from plugin")
    ELSE [ran EXCEPT !.i = @ + 1,
                     !.allHeaders = MergeMaps(q.allHeaders, out.headers),
                     !.mutatedBodyBytes =
                         IF out.kind = "Select" THEN out.mutatedBodyBytes ELSE @]

\* mutation: once a selector has rewritten the body, later selectors' bodies are dropped
RunPluginFirstSelectorWins(q, out) ==
    LET ran == [q EXCEPT !.executed = Append(@, q.i), !.lastOut = out] IN
    IF out.kind = "none" THEN [q EXCEPT !.i = @ + 1, !.lastOut = out]
    ELSE IF out.err # Nil THEN ReturnError(ran, out.err)
    ELSE IF out.kind = "Select" /\ BodyLen(out.mutatedBodyBytes) = 0
    THEN ReturnError([ran EXCEPT !.mutatedBodyBytes = out.mutatedBodyBytes],
                     "empty mutated body bytes slice returned from plugin")
    ELSE [ran EXCEPT !.i = @ + 1,
                     !.allHeaders = MergeMaps(q.allHeaders, out.headers),
                     !.mutatedBodyBytes =
                         IF out.kind = "Select" /\ q.mutatedBodyBytes = q.body
                         THEN out.mutatedBodyBytes ELSE @]

\* mutation: an entry of another capability type ends the call with an error
RunPluginUnknownAborts(q, out) ==
    LET ran == [q EXCEPT !.executed = Append(@, q.i), !.lastOut = out] IN
    IF out.kind = "none" THEN ReturnError(q, "unknown plugin type")
    ELSE IF out.err # Nil THEN ReturnError(ran, out.err)
    ELSE IF out.kind = "Select" /\ BodyLen(out.mutatedBodyBytes) = 0
    THEN ReturnError([ran EXCEPT !.mutatedBodyBytes = out.mutatedBodyBytes],
                     "empty mutated body bytes slice returned from plugin")
    ELSE [ran EXCEPT !.i = @ + 1,
                     !.allHeaders = MergeMaps(q.allHeaders, out.headers),
                     !.mutatedBodyBytes =
                         IF out.kind = "Select" THEN out.mutatedBodyBytes ELSE @]

\* one iteration of the second loop, given the plugin's answer
RunPlugin(q, out) ==
    LET ran == [q EXCEPT !.executed = Append(@, q.i), !.lastOut = out] IN
    IF out.kind = "none" THEN [q EXCEPT !.i = @ + 1, !.lastOut = out]
    ELSE IF out.err # Nil THEN ReturnError(ran, out.err)
    ELSE IF out.kind = "Select" /\ BodyLen(out.mutatedBodyBytes) = 0
    THEN ReturnError([ran EXCEPT !.mutatedBodyBytes = out.mutatedBodyBytes],
                     "empty mutated body bytes slice returned from plugin")
    ELSE [ran EXCEPT !.i = @ + 1,
                     !.allHeaders = MergeMaps(q.allHeaders, out.headers),
                     !.mutatedBodyBytes =
                         IF out.kind = "Select" THEN out.mutatedBodyBytes ELSE @]

\* plugin, _ := GetPlugin(i): an unresolved entry leaves plugin nil, and
\* plugin.TypedName() on the nil interface panics
HandleRequestBodyPlugin(r) ==
    /\ req[r].pc = "exec"
    /\ req[r].i < Length
    /\ LET q == req[r]
           g == GetPlugin(q.i)
       IN  IF g.err # Nil
           THEN req' = [req EXCEPT ![r] =
                          [q EXCEPT !.pc = "done", !.panicked = TRUE,
                                    !.lastOut = NoOut]]
           ELSE \E out \in PluginResults(g.plugin, q) :
                    req' = [req EXCEPT ![r] = RunPlugin(q, out)]
    /\ UNCHANGED <<registryVars, chainVars, server, opRes, initVars, callVars>>

SetModelHeader(Model) == <<<<ModelHeader, Model>>>>

\* mutation: the streamed pass-through carries the selector's body
RespondStreamsMutatedBody(q) ==
    LET Model == IF ModelHeader \in DOMAIN q.allHeaders
                 THEN q.allHeaders[ModelHeader] ELSE ""
    IN  IF Model = ""
        THEN [q EXCEPT
                !.pc = "done",
                !.modelNotInBodyCounter = @ + 1,
                !.ret = IF server.streaming
                        THEN addStreamedBodyResponse(
                                 <<ProcessingResponse("RequestHeaders", FALSE, <<>>,
                                                      NoBodyMutation)>>,
                                 q.mutatedBodyBytes)
                        ELSE <<ProcessingResponse("RequestBody", FALSE, <<>>,
                                                  NoBodyMutation)>>]
        ELSE [q EXCEPT
                !.pc = "done",
                !.successCounter = @ + 1,
                !.ret = IF server.streaming
                        THEN addStreamedBodyResponse(
                                 <<ProcessingResponse("RequestHeaders", TRUE,
                                                      SetModelHeader(Model),
                                                      NoBodyMutation)>>,
                                 q.mutatedBodyBytes)
                        ELSE <<ProcessingResponse("RequestBody", TRUE,
                                                  SetModelHeader(Model),
                                                  BodyMutation_Body(q.mutatedBodyBytes))>>]

\* mutation: the non-streaming response carries no body mutation
RespondNoBodyMutation(q) ==
    LET Model == IF ModelHeader \in DOMAIN q.allHeaders
                 THEN q.allHeaders[ModelHeader] ELSE ""
    IN  IF Model = ""
        THEN [q EXCEPT
                !.pc = "done",
                !.modelNotInBodyCounter = @ + 1,
                !.ret = IF server.streaming
                        THEN addStreamedBodyResponse(
                                 <<ProcessingResponse("RequestHeaders", FALSE, <<>>,
                                                      NoBodyMutation)>>,
                                 q.body)
                        ELSE <<ProcessingResponse("RequestBody", FALSE, <<>>,
                                                  NoBodyMutation)>>]
        ELSE [q EXCEPT
                !.pc = "done",
                !.successCounter = @ + 1,
                !.ret = IF server.streaming
                        THEN addStreamedBodyResponse(
                                 <<ProcessingResponse("RequestHeaders", TRUE,
                                                      SetModelHeader(Model),
                                                      NoBodyMutation)>>,
                                 q.mutatedBodyBytes)
                        ELSE <<ProcessingResponse("RequestBody", TRUE,
                                                  SetModelHeader(Model),
                                                  NoBodyMutation)>>]

\* mutation: the streamed body response is put in front of the header response
RespondBodyBeforeHeaders(q) ==
    LET Model == IF ModelHeader \in DOMAIN q.allHeaders
                 THEN q.allHeaders[ModelHeader] ELSE ""
    IN  IF Model = ""
        THEN [q EXCEPT
                !.pc = "done",
                !.modelNotInBodyCounter = @ + 1,
                !.ret = IF server.streaming
                        THEN addStreamedBodyResponse(
                                 <<ProcessingResponse("RequestHeaders", FALSE, <<>>,
                                                      NoBodyMutation)>>,
                                 q.body)
                        ELSE <<ProcessingResponse("RequestBody", FALSE, <<>>,
                                                  NoBodyMutation)>>]
        ELSE [q EXCEPT
                !.pc = "done",
                !.successCounter = @ + 1,
                !.ret = IF server.streaming
                        THEN addStreamedBodyResponse(<<>>, q.mutatedBodyBytes)
                               \o <<ProcessingResponse("RequestHeaders", TRUE,
                                                       SetModelHeader(Model),
                                                       NoBodyMutation)>>
                        ELSE <<ProcessingResponse("RequestBody", TRUE,
                                                  SetModelHeader(Model),
                                                  BodyMutation_Body(q.mutatedBodyBytes))>>]

\* mutation: 'success' is recorded on the pass-through path too
RespondAlwaysSuccess(q) ==
    LET Model == IF ModelHeader \in DOMAIN q.allHeaders
                 THEN q.allHeaders[ModelHeader] ELSE ""
    IN  IF Model = ""
        THEN [q EXCEPT
                !.pc = "done",
                !.modelNotInBodyCounter = @ + 1,
                !.successCounter = @ + 1,
                !.ret = IF server.streaming
                        THEN addStreamedBodyResponse(
                                 <<ProcessingResponse("RequestHeaders", FALSE, <<>>,
                                                      NoBodyMutation)>>,
                                 q.body)
                        ELSE <<ProcessingResponse("RequestBody", FALSE, <<>>,
                                                  NoBodyMutation)>>]
        ELSE [q EXCEPT
                !.pc = "done",
                !.successCounter = @ + 1,
                !.ret = IF server.streaming
                        THEN addStreamedBodyResponse(
                                 <<ProcessingResponse("RequestHeaders", TRUE,
                                                      SetModelHeader(Model),
                                                      NoBodyMutation)>>,
                                 q.mutatedBodyBytes)
                        ELSE <<ProcessingResponse("RequestBody", TRUE,
                                                  SetModelHeader(Model),
                                                  BodyMutation_Body(q.mutatedBodyBytes))>>]

\* the responses built after the second loop
Respond(q) ==
    LET Model == IF ModelHeader \in DOMAIN q.allHeaders
                 THEN q.allHeaders[ModelHeader] ELSE ""
    IN  IF Model = ""
        THEN [q EXCEPT
                !.pc = "done",
                !.modelNotInBodyCounter = @ + 1,
                !.ret = IF server.streaming
                        THEN addStreamedBodyResponse(
                                 <<ProcessingResponse("RequestHeaders", FALSE, <<>>,
                                                      NoBodyMutation)>>,
                                 q.body)
                        ELSE <<ProcessingResponse("RequestBody", FALSE, <<>>,
                                                  NoBodyMutation)>>]
        ELSE [q EXCEPT
                !.pc = "done",
                !.successCounter = @ + 1,
                !.ret = IF server.streaming
                        THEN addStreamedBodyResponse(
                                 <<ProcessingResponse("RequestHeaders", TRUE,
                                                      SetModelHeader(Model),
                                                      NoBodyMutation)>>,
                                 q.mutatedBodyBytes)
                        ELSE <<ProcessingResponse("RequestBody", TRUE,
                                                  SetModelHeader(Model),
                                                  BodyMutation_Body(q.mutatedBodyBytes))>>]

HandleRequestBodyRespond(r) ==
    /\ req[r].pc = "exec"
    /\ req[r].i >= Length
    /\ req' = [req EXCEPT ![r] = Respond(req[r])]
    /\ UNCHANGED <<registryVars, chainVars, server, opRes, initVars, callVars>>

----------------------------------------------------------------------------
(* InitPlugins: registry and chains from the environment *)

\* An environment value is text; a line of a chain definition and the value
\* of METADATA_KEYS are sequences of tokens: " ", "#", ":", "," and words.
MaxConfigLines == 2

\* strings.TrimSpace
TrimSpace(s) ==
    LET I == {k \in 1..Len(s) : s[k] # " "} IN
    IF I = {} THEN <<>>
    ELSE SubSeq(s, CHOOSE a \in I : \A b \in I : a <= b,
                   CHOOSE a \in I : \A b \in I : a >= b)

\* strings.HasPrefix
HasPrefix(s, prefix) ==
    Len(s) >= Len(prefix) /\ SubSeq(s, 1, Len(prefix)) = prefix

\* strings.SplitN(s, sep, 2)
SplitN2(s, sep) ==
    LET I == {k \in 1..Len(s) : s[k] = sep} IN
    IF I = {} THEN <<s>>
    ELSE LET k == CHOOSE a \in I : \A b \in I : a <= b IN
         <<SubSeq(s, 1, k - 1), SubSeq(s, k + 1, Len(s))>>

\* strings.Split(s, sep)
RECURSIVE Split(_, _)
Split(s, sep) ==
    LET p == SplitN2(s, sep) IN
    IF Len(p) = 1 THEN p ELSE <<p[1]>> \o Split(p[2], sep)

\* chain definition lines: blank, comment, no separator, a pair with blanks
\* around its parts, the key InitPlugins compares with, a pair it leaves for
\* later, a pair of a type it has no case for
ConfigLines ==
    {<<" ">>,
     <<"#", "ModelSelector", ":", "semantic-model-selector">>,
     <<"MetadataExtractor">>,
     <<" ", "MetadataExtractor", " ", ":", " ", "simple-model-extractor", " ">>,
     <<"MetadaExtractor", ":", "simple-model-extractor">>,
     <<"ModelSelector", ":", "semantic-model-selector">>,
     <<"GuardRail", ":", "bad-words-blocker">>}

\* a chain definition: its lines; no line stands for the unset or empty variable
Configs(n) == UNION {[1..k -> ConfigLines] : k \in 0..n}

MetadataKeysValues ==
    {<<>>,
     <<"model">>,
     <<" ", "model", " ", ",", "user", " ">>,
     <<"model", ",", ",", "user">>}

Envs ==
    [REQUEST_PLUGINS_CHAIN : Configs(MaxConfigLines),
     RESPONSE_PLUGINS_CHAIN : Configs(1),
     METADATA_KEYS : MetadataKeysValues]

NoEnv == [REQUEST_PLUGINS_CHAIN |-> <<>>, RESPONSE_PLUGINS_CHAIN |-> <<>>,
          METADATA_KEYS |-> <<>>]

InitResult(returned, responseChain, metaDataKeys, err) ==
    [returned |-> returned, responseChain |-> responseChain,
     metaDataKeys |-> metaDataKeys, err |-> err]

NotReturned == InitResult(FALSE, <<>>, <<>>, Nil)

\* the registry and the chain a helper of InitPlugins works on, and its error
InitState(factories, instances, chain, err) ==
    [pluginsFactory |-> factories, plugins |-> instances, chain |-> chain,
     err |-> err]

\* mutation: the parts of METADATA_KEYS are kept with their blanks
MetaDataKeysUntrimmed(metaKeysEnv) ==
    IF metaKeysEnv # <<>>
    THEN Split(metaKeysEnv, ",")
    ELSE <<<<"model">>>>

\* metaDataKeys: the trimmed parts of METADATA_KEYS, or the key model
MetaDataKeys(metaKeysEnv) ==
    IF metaKeysEnv # <<>>
    THEN LET parts == Split(metaKeysEnv, ",") IN
         [k \in 1..Len(parts) |-> TrimSpace(parts[k])]
    ELSE <<<<"model">>>>

\* processPlugin: CreatePlugin, RegisterPlugin, then chain.AddPlugin, whose
\* error is dropped
processPlugin(pluginType, st) ==
    IF pluginType \notin DOMAIN st.pluginsFactory
    THEN [st EXCEPT !.err = "failed to create an instance"]
    ELSE LET plugin == FactoryProduct(st.pluginsFactory[pluginType])
             t == plugin.Type
         IN  IF \/ t \notin DOMAIN SupportedInterfaces
                \/ plugin.Name \notin SupportedInterfaces[t]
                \/ t \notin DOMAIN st.pluginsFactory
             THEN [st EXCEPT !.err = "failed to register an instance"]
             ELSE LET registered == Put(st.plugins, t, plugin) IN
                  [st EXCEPT !.plugins = registered,
                             !.chain = IF pluginType \in DOMAIN registered
                                       THEN Append(@, pluginType) ELSE @]

\* registry.RegisterFactory followed by processPlugin
RegisterAndProcess(pluginType, factory, st) ==
    IF pluginType \notin DOMAIN SupportedInterfaces
    THEN [st EXCEPT !.err = "failed to register factory"]
    ELSE LET p == processPlugin(pluginType,
                                [st EXCEPT !.pluginsFactory = Put(@, pluginType, factory)])
         IN  IF p.err # Nil THEN [p EXCEPT !.err = "failed to process"] ELSE p

\* one line of a chain definition
processLine(rawLine, st) ==
    LET line == TrimSpace(rawLine)
        kvPair == SplitN2(line, ":")
    IN  IF line = <<>> \/ HasPrefix(line, <<"#">>) THEN st
        ELSE IF Len(kvPair) # 2
        THEN [st EXCEPT !.err = "malformed plugin definition"]
        ELSE LET pluginType == TrimSpace(kvPair[1])
                 implementation == TrimSpace(kvPair[2])
             IN  IF pluginType = <<"MetadaExtractor">>
                    /\ implementation = <<"simple-model-extractor">>
                 THEN RegisterAndProcess(pluginType[1], "NewSimpleModelExtractor", st)
                 ELSE st

\* processChain from line k of the definition on; the first error ends it
RECURSIVE processChain(_, _, _)
processChain(lines, k, st) ==
    IF k > Len(lines) THEN st
    ELSE LET next == processLine(lines[k], st) IN
         IF next.err # Nil THEN next ELSE processChain(lines, k + 1, next)

\* InitPlugins; on an error it returns nil for the registry and the chains
InitPlugins ==
    /\ ~initPlugins.returned
    /\ LET keys == MetaDataKeys(env.METADATA_KEYS)
           request == processChain(env.REQUEST_PLUGINS_CHAIN, 1,
                                   InitState(EmptyMap, EmptyMap, <<>>, Nil))
           response == processChain(env.RESPONSE_PLUGINS_CHAIN, 1,
                                    [request EXCEPT !.chain = <<>>])
           final == IF Len(request.chain) = 0
                    THEN LET d == RegisterAndProcess(
                                      DefaultPluginType, "NewSimpleModelExtractor",
                                      [response EXCEPT !.chain = request.chain])
                         IN  IF d.err = "failed to register factory" THEN d
                             ELSE IF d.err # Nil
                             THEN [d EXCEPT !.err = "failed to create default MetaDataExtractor"]
                             ELSE d
                    ELSE [response EXCEPT !.chain = request.chain]
           err == IF request.err # Nil THEN request.err
                  ELSE IF response.err # Nil THEN response.err
                  ELSE final.err
       IN  IF err # Nil
           THEN /\ pluginsFactory' = EmptyMap
                /\ plugins' = EmptyMap
                /\ chainPlugins' = <<>>
                /\ initPlugins' = InitResult(TRUE, <<>>, <<>>, err)
           ELSE /\ pluginsFactory' = final.pluginsFactory
                /\ plugins' = final.plugins
                /\ chainPlugins' = final.chain
                /\ initPlugins' = InitResult(TRUE, response.chain, keys, Nil)
    /\ UNCHANGED <<sharedChatCompletion, sharedCompletion, server, req, opRes, env,
                   callVars>>

----------------------------------------------------------------------------
(* Payload processors: model-to-header and body-field-to-header *)

modelHeader == "X-Gateway-Model-Name"
baseModelHeader == "X-Gateway-Base-Model-Name"
modelField == "model"

\* a decoded JSON value of a body (map[string]any): its Go kind and its text
JsonValue(kind, s) == [kind |-> kind, s |-> s]

JsonValues ==
    {JsonValue("string", "foo"), JsonValue("string", "adapter1"),
     JsonValue("string", ""), JsonValue("float64", "5"), JsonValue("nil", "")}

\* fmt.Sprintf("%v", v)
Sprintf(v) == IF v.kind = "nil" THEN "<nil>" ELSE v.s

BodyFields == {"model", "provider"}

\* bodies: the fields that are present, each with a JSON value
ExecuteBodies == UNION {[S -> JsonValues] : S \in SUBSET BodyFields}

ExecuteHeaders ==
    {EmptyMap,
     [k \in {"x-request-id"} |-> "1"],
     [k \in {modelHeader} |-> "old"],
     [k \in {modelHeader, baseModelHeader, "x-request-id"} |->
        IF k = modelHeader THEN "old"
        ELSE IF k = baseModelHeader THEN "oldbase" ELSE "1"]}

\* the datastore field of ModelExtractorPlugin: nil, or a datastore with
\* the base model it knows for each model name ("" for none)
Datastore(configured, baseModels) ==
    [configured |-> configured, baseModels |-> baseModels]

NilDatastore == Datastore(FALSE, EmptyMap)

Datastores ==
    {NilDatastore}
      \cup {Datastore(TRUE, m) : m \in [{"foo", "adapter1"} -> {"", "base"}]}

GetBaseModel(ds, modelName) ==
    IF modelName \in DOMAIN ds.baseModels THEN ds.baseModels[modelName] ELSE ""

\* the headerToFieldMap field of BodyFieldToHeaderPlugin
HeaderToFieldMaps ==
    {EmptyMap,
     [h \in {"X-Model-Name"} |-> "model"],
     [h \in {"X-Model-Name", "X-Provider"} |->
        IF h = "X-Model-Name" THEN "model" ELSE "provider"],
     [h \in {modelHeader, "X-Copy"} |-> "model"]}

\* what Execute returns
ExecuteResult(headers, body, err) == [headers |-> headers, body |-> body, err |-> err]

\* mutation: the base-model header is set to whatever GetBaseModel returned
ModelExtractorPluginExecuteAnyBase(ds, headers, body) ==
    LET ok == modelField \in DOMAIN body /\ body[modelField].kind = "string"
        targetModel == IF ok THEN body[modelField].s ELSE ""
    IN  IF ~ok \/ targetModel = ""
        THEN ExecuteResult(headers, body, Nil)
        ELSE LET h1 == Put(headers, modelHeader, targetModel)
                 h2 == IF ds.configured
                       THEN Put(h1, baseModelHeader, GetBaseModel(ds, targetModel))
                       ELSE h1
             IN  ExecuteResult(h2, body, Nil)

\* ModelExtractorPlugin.Execute; the headers map it returns is the map it was
\* given, written in place
ModelExtractorPluginExecute(ds, headers, body) ==
    LET ok == modelField \in DOMAIN body /\ body[modelField].kind = "string"
        targetModel == IF ok THEN body[modelField].s ELSE ""
    IN  IF ~ok \/ targetModel = ""
        THEN ExecuteResult(headers, body, Nil)
        ELSE LET h1 == Put(headers, modelHeader, targetModel)
                 baseModel == IF ds.configured
                              THEN GetBaseModel(ds, targetModel) ELSE ""
                 h2 == IF ds.configured /\ baseModel # ""
                       THEN Put(h1, baseModelHeader, baseModel)
                       ELSE h1
             IN  ExecuteResult(h2, body, Nil)

\* mutation: the extracted headers are written into the map passed in
BodyFieldToHeaderPluginExecuteInPlace(headerToFieldMap, headers, body) ==
    LET set == {h \in DOMAIN headerToFieldMap : headerToFieldMap[h] \in DOMAIN body}
        updatedHeaders ==
            [h \in DOMAIN headers \cup set |->
                IF h \in set
                THEN LET fieldValue == body[headerToFieldMap[h]]
                     IN  IF fieldValue.kind = "string" THEN fieldValue.s
                         ELSE Sprintf(fieldValue)
                ELSE headers[h]]
    IN  ExecuteResult(updatedHeaders, body, Nil)

\* BodyFieldToHeaderPlugin.Execute; updatedHeaders is a fresh map
BodyFieldToHeaderPluginExecute(headerToFieldMap, headers, body) ==
    LET set == {h \in DOMAIN headerToFieldMap : headerToFieldMap[h] \in DOMAIN body}
        updatedHeaders ==
            [h \in set |->
                LET fieldValue == body[headerToFieldMap[h]]
                IN  IF fieldValue.kind = "string" THEN fieldValue.s
                    ELSE Sprintf(fieldValue)]
    IN  ExecuteResult(updatedHeaders, body, Nil)

\* a call of Execute: the plugin's fields, the arguments as they were passed
\* (argHeaders, argBody), the caller's maps as they are now (headers, body),
\* and what the call returned
ExecuteCall(op, ds, headerToFieldMap, headers, body) ==
    [op |-> op, datastore |-> ds, headerToFieldMap |-> headerToFieldMap,
     argHeaders |-> headers, argBody |-> body,
     headers |-> headers, body |-> body,
     ret |-> ExecuteResult(EmptyMap, EmptyMap, Nil)]

NoExecute == ExecuteCall("none", NilDatastore, EmptyMap, EmptyMap, EmptyMap)

ModelExtractorPluginCall ==
    /\ execCall.op = "none"
    /\ LET r == ModelExtractorPluginExecute(execCall.datastore, execCall.headers,
                                            execCall.body)
       IN  execCall' = [execCall EXCEPT !.op = "ModelExtractorPlugin.Execute",
                                        !.headers = r.headers,
                                        !.ret = r]
    /\ UNCHANGED <<registryVars, chainVars, server, req, opRes, initVars, bodyCall>>

BodyFieldToHeaderPluginCall ==
    /\ execCall.op = "none"
    /\ LET r == BodyFieldToHeaderPluginExecute(execCall.headerToFieldMap,
                                               execCall.headers, execCall.body)
       IN  execCall' = [execCall EXCEPT !.op = "BodyFieldToHeaderPlugin.Execute",
                                        !.ret = r]
    /\ UNCHANGED <<registryVars, chainVars, server, req, opRes, initVars, bodyCall>>

----------------------------------------------------------------------------
(* HandleRequestBody of handlers/request.go: the LoRA naming convention *)

MaxNameLen == 5

\* A model name is the sequence of its pieces: a "/", a word that may be
\* the LoRA tag, or other text holding neither.
NameTokens == {"/", "lora", "adapter", "m"}

ModelNames == UNION {[1..n -> NameTokens] : n \in 0..MaxNameLen}

\* values of the LORA_TAG environment variable ("" when unset)
LoraTags == {"", "lora", "adapter"}

\* bytes.Index and bytes.LastIndex for a separator of one piece: the
\* 0-based position of its first or last occurrence, -1 when there is none
Index(s, sep) ==
    IF \E i \in 1..Len(s) : s[i] = sep
    THEN (CHOOSE i \in 1..Len(s) :
              s[i] = sep /\ \A j \in 1..(i - 1) : s[j] # sep) - 1
    ELSE -1

LastIndex(s, sep) ==
    IF \E i \in 1..Len(s) : s[i] = sep
    THEN (CHOOSE i \in 1..Len(s) :
              s[i] = sep /\ \A j \in (i + 1)..Len(s) : s[j] # sep) - 1
    ELSE -1

\* s[:hi] and s[lo:] of a Go slice
SliceTo(s, hi) == SubSeq(s, 1, hi)
SliceFrom(s, lo) == SubSeq(s, lo + 1, Len(s))

\* request bytes: a JSON object written as its members in order, or bytes
\* that do not parse
JsonObject(members) == [json |-> "object", members |-> members]
Malformed == [json |-> "malformed", members |-> <<>>]

Member(key, value) == [key |-> key, value |-> value]

PromptMember == Member("prompt", JsonValue("string", <<"hi">>))

ModelMember(name) == Member("model", JsonValue("string", name))

HandlerBodies ==
    {Malformed,
     JsonObject(<<PromptMember>>),
     JsonObject(<<Member("model", JsonValue("float64", <<"5">>))>>),
     JsonObject(<<Member("model", JsonValue("nil", <<>>)), PromptMember>>)}
      \cup {JsonObject(<<ModelMember(n)>>) : n \in ModelNames}
      \cup {JsonObject(<<PromptMember, ModelMember(n)>>) : n \in ModelNames}
      \cup {JsonObject(<<ModelMember(n), PromptMember>>) : n \in ModelNames}

\* json.Unmarshal into map[string]json.RawMessage: a later member replaces
\* an earlier one of the same key
UnmarshalRaw(data) ==
    IF data.json # "object"
    THEN [err |-> "unmarshal error", raw |-> EmptyMap]
    ELSE LET keys == {data.members[i].key : i \in 1..Len(data.members)}
             last(k) == CHOOSE i \in 1..Len(data.members) :
                           /\ data.members[i].key = k
                           /\ \A j \in (i + 1)..Len(data.members) :
                                 data.members[j].key # k
         IN  [err |-> Nil, raw |-> [k \in keys |-> data.members[last(k)].value]]

\* json.Unmarshal into RequestBody: Model takes a string, null leaves it
\* empty, any other JSON type is an error
UnmarshalRequestBody(data) ==
    LET u == UnmarshalRaw(data) IN
    IF u.err # Nil THEN [err |-> u.err, Model |-> <<>>]
    ELSE IF "model" \notin DOMAIN u.raw THEN [err |-> Nil, Model |-> <<>>]
    ELSE IF u.raw["model"].kind = "string"
    THEN [err |-> Nil, Model |-> u.raw["model"].s]
    ELSE IF u.raw["model"].kind = "nil" THEN [err |-> Nil, Model |-> <<>>]
    ELSE [err |-> "unmarshal type error", Model |-> <<>>]

\* the keys of the bodies above in byte order
SortedKeys == <<"model", "prompt">>

\* json.Marshal of the raw map: the members sorted by key
MarshalRaw(raw) ==
    LET ks == SelectSeq(SortedKeys, LAMBDA k : k \in DOMAIN raw)
    IN  JsonObject([i \in 1..Len(ks) |-> Member(ks[i], raw[ks[i]])])

Mutation(prefix, suffix, mutated) ==
    [prefix |-> prefix, suffix |-> suffix, mutated |-> mutated]

\* mutation: the prefix ends at the first "/" of the name
MutateModelNameFirstSlash(orig, loraTag) ==
    LET idx == Index(orig, loraTag) IN
    IF idx = -1 THEN Mutation(orig, <<>>, FALSE)
    ELSE LET lastSlash == Index(SliceTo(orig, idx), "/") IN
         IF lastSlash = -1 THEN Mutation(orig, <<>>, FALSE)
         ELSE LET afterTag == SliceFrom(orig, idx + 1)
                  nextSlash == Index(afterTag, "/")
              IN  IF nextSlash = -1 THEN Mutation(orig, <<>>, FALSE)
                  ELSE Mutation(SliceTo(orig, lastSlash),
                                SliceFrom(afterTag, nextSlash + 1), TRUE)

\* the LoRA convention [model-family]/<model-name>/lora/<lora-name>: prefix
\* and suffix of the name, and whether the name is mutated (the tag is one
\* piece of the name, so len(loraTag) is 1 here)
MutateModelName(orig, loraTag) ==
    LET idx == Index(orig, loraTag) IN
    IF idx = -1 THEN Mutation(orig, <<>>, FALSE)
    ELSE LET lastSlash == LastIndex(SliceTo(orig, idx), "/") IN
         IF lastSlash = -1 THEN Mutation(orig, <<>>, FALSE)
         ELSE LET afterTag == SliceFrom(orig, idx + 1)
                  nextSlash == Index(afterTag, "/")
              IN  IF nextSlash = -1 THEN Mutation(orig, <<>>, FALSE)
                  ELSE Mutation(SliceTo(orig, lastSlash),
                                SliceFrom(afterTag, nextSlash + 1), TRUE)

\* a call of HandleRequestBody: s.streaming, LORA_TAG, the bytes passed in,
\* then the locals at the return, the responses, the error and the metrics
BodyCall(pc, streaming, loraTagEnv, bytes) ==
    [pc |-> pc, streaming |-> streaming, LORA_TAG |-> loraTagEnv,
     arg |-> bytes, requestBodyBytes |-> bytes, Model |-> <<>>,
     prefix |-> <<>>, suffix |-> <<>>, ret |-> <<>>, err |-> Nil,
     metric |-> "none"]

NoBodyCall == BodyCall("idle", FALSE, "", Malformed)

HandlersHandleRequestBody ==
    /\ bodyCall.pc = "idle"
    /\ LET requestBodyBytes == bodyCall.requestBodyBytes
           requestBody == UnmarshalRequestBody(requestBodyBytes)
           parsed == UnmarshalRaw(requestBodyBytes)
       IN
       IF requestBody.err # Nil
       THEN bodyCall' = [bodyCall EXCEPT !.pc = "returned",
                                         !.err = requestBody.err,
                                         !.metric = "ModelNotParsed"]
       ELSE IF parsed.err # Nil
       THEN bodyCall' = [bodyCall EXCEPT !.pc = "returned",
                                         !.err = parsed.err,
                                         !.metric = "ModelNotParsed"]
       ELSE IF requestBody.Model = <<>>
       THEN bodyCall' =
              [bodyCall EXCEPT
                 !.pc = "returned",
                 !.metric = "ModelNotInBody",
                 !.ret = IF bodyCall.streaming
                         THEN addStreamedBodyResponse(
                                <<ProcessingResponse("RequestHeaders", FALSE, <<>>,
                                                     NoBodyMutation)>>,
                                requestBodyBytes)
                         ELSE <<ProcessingResponse("RequestBody", FALSE, <<>>,
                                                   NoBodyMutation)>>]
       ELSE LET loraTag == IF bodyCall.LORA_TAG = "" THEN "lora"
                           ELSE bodyCall.LORA_TAG
                m == MutateModelName(requestBody.Model, loraTag)
                updatedBodyBytes ==
                    IF m.mutated
                    THEN MarshalRaw(Put(parsed.raw, "model",
                                        JsonValue("string", m.suffix)))
                    ELSE requestBodyBytes
            IN  bodyCall' =
                  [bodyCall EXCEPT
                     !.pc = "returned",
                     !.metric = "Success",
                     !.Model = IF m.mutated THEN m.suffix ELSE requestBody.Model,
                     !.prefix = m.prefix,
                     !.suffix = m.suffix,
                     !.requestBodyBytes = updatedBodyBytes,
                     !.ret = IF bodyCall.streaming
                             THEN addStreamedBodyResponse(
                                    <<ProcessingResponse("RequestHeaders", TRUE,
                                                         SetModelHeader(m.prefix),
                                                         NoBodyMutation)>>,
                                    updatedBodyBytes)
                             ELSE <<ProcessingResponse("RequestBody", TRUE,
                                                       SetModelHeader(m.prefix),
                                                       NoBodyMutation)>>]
    /\ UNCHANGED <<registryVars, chainVars, server, req, opRes, initVars, execCall>>

----------------------------------------------------------------------------
(* Specifications *)

NoOp == OpRes("none", "", "", Nil)

FactoryOf(t) ==
    CASE t = "ModelSelector" -> "NewSemanticModelSelector"
      [] t = "GuardRail" -> "NewBadWordsBlocker"
      [] OTHER -> "NewSimpleModelExtractor"

\* registries InitPlugins-style setup can leave behind: for some of the
\* supported types a factory and one instance of an allowed implementation
InitialRegistries ==
    {m \in UNION {[S -> SupportedPlugins] : S \in SUBSET DOMAIN SupportedInterfaces} :
        \A t \in DOMAIN m : m[t].Type = t}

ChainsOver(S) == UNION {[1..n -> S] : n \in 0..MaxChainLen}

\* Serving: a configured registry and chain, one request served; the
\* registry may still lose instances before the request arrives.
Init ==
    /\ plugins \in InitialRegistries
    /\ pluginsFactory = [t \in DOMAIN plugins |-> FactoryOf(t)]
    /\ chainPlugins \in ChainsOver(DOMAIN plugins)
    /\ sharedChatCompletion = ZeroChatCompletion
    /\ sharedCompletion = ZeroCompletion
    /\ server \in [endpoint : Endpoints, streaming : BOOLEAN]
    /\ req = [r \in Requests |-> IdleReq]
    /\ opRes = NoOp
    /\ env = NoEnv
    /\ initPlugins = NotReturned
    /\ execCall = NoExecute
    /\ bodyCall = NoBodyCall

Idle == \A r \in Requests : req[r].pc = "idle"

\* an instance is unregistered after the chain was built, before serving
UnregisterBeforeServing(t) == Idle /\ UnregisterPlugin(t)

Next ==
    \/ \E t \in DOMAIN SupportedInterfaces : UnregisterBeforeServing(t)
    \/ \E b \in RequestBodies : HandleRequestBody("r1", b)
    \/ HandleRequestBodyPlugin("r1")
    \/ HandleRequestBodyRespond("r1")

Spec == Init /\ [][Next]_vars

\* Concurrent serving: two requests on one chain whose first member requires
\* full parsing and whose extractor reads the shared parse.
InitConc ==
    /\ plugins = [t \in {"GuardRail", "MetadataExtractor"} |->
                    IF t = "GuardRail" THEN PidDisclosureBlocker
                    ELSE NewSimpleModelExtractor]
    /\ pluginsFactory = [t \in DOMAIN plugins |-> FactoryOf(t)]
    /\ chainPlugins \in {<<"GuardRail", "MetadataExtractor">>,
                         <<"MetadataExtractor", "GuardRail">>}
    /\ sharedChatCompletion = ZeroChatCompletion
    /\ sharedCompletion = ZeroCompletion
    /\ server \in [endpoint : Endpoints, streaming : BOOLEAN]
    /\ req = [r \in Requests |-> IdleReq]
    /\ opRes = NoOp
    /\ env = NoEnv
    /\ initPlugins = NotReturned
    /\ execCall = NoExecute
    /\ bodyCall = NoBodyCall

NextConc ==
    \E r \in Requests :
        \/ \E b \in RequestBodies : HandleRequestBody(r, b)
        \/ HandleRequestBodyPlugin(r)
        \/ HandleRequestBodyRespond(r)

SpecConc == InitConc /\ [][NextConc]_vars

\* Configuration: registry and chain operations from the empty registry.
InitRegistry ==
    /\ plugins = EmptyMap
    /\ pluginsFactory = EmptyMap
    /\ chainPlugins = <<>>
    /\ sharedChatCompletion = ZeroChatCompletion
    /\ sharedCompletion = ZeroCompletion
    /\ server = [endpoint |-> EndpointCompletions, streaming |-> FALSE]
    /\ req = [r \in Requests |-> IdleReq]
    /\ opRes = NoOp
    /\ env = NoEnv
    /\ initPlugins = NotReturned
    /\ execCall = NoExecute
    /\ bodyCall = NoBodyCall

ConfigKeys == DOMAIN SupportedInterfaces \cup {"MetadaExtractor"}

NextRegistry ==
    \/ \E t \in ConfigKeys : RegisterFactory(t, FactoryOf(t))
    \/ \E p \in SupportedPlugins \cup UnsupportedPlugins : RegisterPlugin(p)
    \/ \E t \in ConfigKeys : UnregisterFactory(t)
    \/ \E t \in ConfigKeys : UnregisterPlugin(t)
    \/ Clear
    \/ \E t \in ConfigKeys : AddPlugin(t)
    \/ \E t \in ConfigKeys : DeletePlugin(t)
    \/ \E t \in ConfigKeys, i \in -1..(MaxChainLen + 1) : AddPluginAtInd(t, i)
    \/ \E i \in -1..(MaxChainLen + 1) : GetPluginCall(i)
    \/ \E t \in ConfigKeys : CreatePluginCall(t)

SpecRegistry == InitRegistry /\ [][NextRegistry]_vars

\* The chain's parse cache used on its own: parse operations and
\* GetSharedMemory called in any order on a new chain. opRes keeps, for a
\* parse, the model value of the data and the error; for GetSharedMemory, the
\* key and the kind of the shape returned.
InitCache ==
    /\ plugins = EmptyMap
    /\ pluginsFactory = EmptyMap
    /\ chainPlugins = <<>>
    /\ sharedChatCompletion = ZeroChatCompletion
    /\ sharedCompletion = ZeroCompletion
    /\ server = [endpoint |-> EndpointCompletions, streaming |-> FALSE]
    /\ req = [r \in Requests |-> IdleReq]
    /\ opRes = NoOp
    /\ env = NoEnv
    /\ initPlugins = NotReturned
    /\ execCall = NoExecute
    /\ bodyCall = NoBodyCall

ParseCompletionCall(data) ==
    /\ sharedCompletion' = ParseCompletion(data, sharedCompletion).value
    /\ opRes' = OpRes("ParseCompletion", "", data.model,
                      ParseCompletion(data, sharedCompletion).err)
    /\ UNCHANGED <<registryVars, chainPlugins, sharedChatCompletion, server, req, initVars, callVars>>

ParseChatCompletionCall(data) ==
    /\ sharedChatCompletion' = ParseChatCompletion(data, sharedChatCompletion).value
    /\ opRes' = OpRes("ParseChatCompletion", "", data.model,
                      ParseChatCompletion(data, sharedChatCompletion).err)
    /\ UNCHANGED <<registryVars, chainPlugins, sharedCompletion, server, req, initVars, callVars>>

GetSharedMemoryCall(which) ==
    /\ opRes' = OpRes("GetSharedMemory", which, GetSharedMemory(which).shape, Nil)
    /\ UNCHANGED <<registryVars, chainVars, server, req, initVars, callVars>>

SharedMemoryKeys == {"/v1/completions", "/v1/chat/completions", "/v1/embeddings", ""}

NextCache ==
    \/ \E b \in RequestBodies \cup {BodyRewritten} : ParseCompletionCall(b)
    \/ \E b \in RequestBodies \cup {BodyRewritten} : ParseChatCompletionCall(b)
    \/ \E k \in SharedMemoryKeys : GetSharedMemoryCall(k)

SpecCache == InitCache /\ [][NextCache]_vars

\* Start-up: InitPlugins run once on an environment
InitEnv ==
    /\ plugins = EmptyMap
    /\ pluginsFactory = EmptyMap
    /\ chainPlugins = <<>>
    /\ sharedChatCompletion = ZeroChatCompletion
    /\ sharedCompletion = ZeroCompletion
    /\ server = [endpoint |-> EndpointCompletions, streaming |-> FALSE]
    /\ req = [r \in Requests |-> IdleReq]
    /\ opRes = NoOp
    /\ env \in Envs
    /\ initPlugins = NotReturned
    /\ execCall = NoExecute
    /\ bodyCall = NoBodyCall

NextInit == InitPlugins

SpecInit == InitEnv /\ [][NextInit]_vars

\* Payload processors called directly: any plugin configuration, header map
\* and body, one Execute
InitExecute ==
    /\ plugins = EmptyMap
    /\ pluginsFactory = EmptyMap
    /\ chainPlugins = <<>>
    /\ sharedChatCompletion = ZeroChatCompletion
    /\ sharedCompletion = ZeroCompletion
    /\ server = [endpoint |-> EndpointCompletions, streaming |-> FALSE]
    /\ req = [r \in Requests |-> IdleReq]
    /\ opRes = NoOp
    /\ env = NoEnv
    /\ initPlugins = NotReturned
    /\ execCall \in {ExecuteCall("none", ds, m, h, b) :
                       ds \in Datastores, m \in HeaderToFieldMaps,
                       h \in ExecuteHeaders, b \in ExecuteBodies}
    /\ bodyCall = NoBodyCall

NextExecute ==
    \/ ModelExtractorPluginCall
    \/ BodyFieldToHeaderPluginCall

SpecExecute == InitExecute /\ [][NextExecute]_vars

\* The server of handlers/request.go: any mode, LORA_TAG and body, one call
InitHandlers ==
    /\ plugins = EmptyMap
    /\ pluginsFactory = EmptyMap
    /\ chainPlugins = <<>>
    /\ sharedChatCompletion = ZeroChatCompletion
    /\ sharedCompletion = ZeroCompletion
    /\ server = [endpoint |-> EndpointCompletions, streaming |-> FALSE]
    /\ req = [r \in Requests |-> IdleReq]
    /\ opRes = NoOp
    /\ env = NoEnv
    /\ initPlugins = NotReturned
    /\ execCall = NoExecute
    /\ bodyCall \in {BodyCall("idle", st, tag, b) :
                       st \in BOOLEAN, tag \in LoraTags, b \in HandlerBodies}

NextHandlers == HandlersHandleRequestBody

SpecHandlers == InitHandlers /\ [][NextHandlers]_vars

----------------------------------------------------------------------------
(* Properties *)

HA == [k \in {"H"} |-> "a"]
HB == [k \in {"H"} |-> "b"]

\* the step of request r is an iteration of the second loop that ran a plugin
\* of the given kind and merged its headers
Merged(r, kind) ==
    /\ req[r].pc = "exec"
    /\ req'[r].pc = "exec"
    /\ req'[r].i = req[r].i + 1
    /\ req'[r].lastOut.kind = kind

\* C1: when a MetadataExtractor entry has returned {H: a} and the next entry,
\* a MetadataExtractor too, returns {H: b}, the accumulator holds b for H.
C1_ExtractorsOverwrite ==
    [][\A r \in Requests :
          (/\ Merged(r, "Extract")
           /\ req[r].lastOut.kind = "Extract"
           /\ req[r].lastOut.headers = HA
           /\ req'[r].lastOut.headers = HB)
          => req'[r].allHeaders["H"] = "b"]_vars

\* C2: a ModelSelector's headers are merged fill-only-if-absent: every header
\* already in the accumulator keeps its value, and the selector's headers are
\* added exactly for the names the accumulator did not hold.
C2_SelectorsFillOnlyIfAbsent ==
    [][\A r \in Requests :
          Merged(r, "Select") =>
            LET old == req[r].allHeaders
                new == req'[r].allHeaders
                sel == req'[r].lastOut.headers
            IN  /\ DOMAIN new = DOMAIN old \cup DOMAIN sel
                /\ \A k \in DOMAIN old : new[k] = old[k]
                /\ \A k \in DOMAIN sel \ DOMAIN old : new[k] = sel[k]]_vars

\* a selector has just returned b for H while an earlier plugin had set a
C2_Witness ==
    \E r \in Requests :
        /\ req[r].pc = "exec"
        /\ req[r].lastOut.kind = "Select"
        /\ "H" \in DOMAIN req[r].lastOut.headers
        /\ req[r].lastOut.headers["H"] = "b"
        /\ "H" \in DOMAIN req[r].allHeaders
        /\ req[r].allHeaders["H"] = "a"
        /\ ModelHeader \in DOMAIN req[r].lastOut.headers
        /\ Len(req[r].executed) = 2

\* C3: non-streaming, /v1/completions, body {"model":"foo","prompt":"hi"},
\* chain = one simple-model-extractor: the call returns without error one
\* response that sets X-Gateway-Model-Name to foo and carries the original body.
C3_RoundTrip ==
    \A r \in Requests :
        (/\ req[r].pc = "done"
         /\ ~server.streaming
         /\ server.endpoint = EndpointCompletions
         /\ req[r].body = BodyFoo
         /\ chainPlugins = <<"MetadataExtractor">>
         /\ "MetadataExtractor" \in DOMAIN plugins
         /\ plugins["MetadataExtractor"] = NewSimpleModelExtractor)
        => /\ req[r].err = Nil
           /\ ~req[r].panicked
           /\ req[r].ret = <<ProcessingResponse("RequestBody", TRUE,
                                                SetModelHeader("foo"),
                                                BodyMutation_Body(BodyFoo))>>

\* C4: a Select that returns an empty mutated body (and no error) ends the
\* call with the empty-mutated-body error and no responses.
C4_EmptyMutatedBodyAborts ==
    \A r \in Requests :
        (/\ req[r].lastOut.kind = "Select"
         /\ req[r].lastOut.err = Nil
         /\ BodyLen(req[r].lastOut.mutatedBodyBytes) = 0)
        => /\ req[r].pc = "done"
           /\ req[r].err = "empty mutated body bytes slice returned from plugin"
           /\ req[r].ret = <<>>
           /\ req[r].successCounter = 0
           /\ req[r].modelNotInBodyCounter = 0

\* the selector stood at the second chain position, after a plugin that
\* returned headers without error
C4_Witness ==
    \E r \in Requests :
        /\ req[r].lastOut.kind = "Select"
        /\ req[r].lastOut.err = Nil
        /\ BodyLen(req[r].lastOut.mutatedBodyBytes) = 0
        /\ req[r].executed = <<0, 1>>
        /\ req[r].allHeaders # EmptyMap

\* the call of r returned responses and the accumulator has no model header
ModelHeaderNeverSet(r) ==
    /\ req[r].pc = "done"
    /\ req[r].err = Nil
    /\ ~req[r].panicked
    /\ ModelHeader \notin DOMAIN req[r].allHeaders

\* C5 as claimed: with no model header set, no response carries a header
\* mutation or a body mutation, streaming or not, and 'model not found' is
\* recorded once.
C5_PassThroughNoMutation ==
    \A r \in Requests :
        ModelHeaderNeverSet(r) =>
            /\ \A k \in 1..Len(req[r].ret) :
                  /\ req[r].ret[k].setHeaders = <<>>
                  /\ req[r].ret[k].bodyMutation = NoBodyMutation
            /\ req[r].modelNotInBodyCounter = 1

\* C5 amended: no response carries a header mutation or the clear-route-cache
\* flag; non-streaming there is one RequestBody response without body
\* mutation; streaming there is a RequestHeaders response followed by a
\* RequestBody response that streams the original request body, end of
\* stream set; 'model not found' is recorded once and 'success' never.
C5_PassThrough ==
    \A r \in Requests :
        ModelHeaderNeverSet(r) =>
            /\ \A k \in 1..Len(req[r].ret) :
                  /\ req[r].ret[k].setHeaders = <<>>
                  /\ ~req[r].ret[k].clearRouteCache
            /\ IF server.streaming
               THEN /\ Len(req[r].ret) = 2
                    /\ req[r].ret[1].kind = "RequestHeaders"
                    /\ req[r].ret[1].bodyMutation = NoBodyMutation
                    /\ req[r].ret[2].kind = "RequestBody"
                    /\ req[r].ret[2].bodyMutation =
                          BodyMutation_StreamedResponse(req[r].body)
               ELSE /\ Len(req[r].ret) = 1
                    /\ req[r].ret[1].kind = "RequestBody"
                    /\ req[r].ret[1].bodyMutation = NoBodyMutation
            /\ req[r].modelNotInBodyCounter = 1
            /\ req[r].successCounter = 0

\* streaming pass-through after a selector rewrote the body
C5_Witness ==
    \E r \in Requests :
        /\ ModelHeaderNeverSet(r)
        /\ server.streaming
        /\ req[r].mutatedBodyBytes # req[r].body
        /\ Len(req[r].executed) > 0

\* C6: one call invokes ParseCompletion / ParseChatCompletion at most once in
\* total, so at most one of the two shapes is parsed.
C6_ParseAtMostOnce ==
    \A r \in Requests : Len(req[r].parseCalls) <= 1

\* two resolvable chain members require full parsing and one parse ran
C6_Witness ==
    \E r \in Requests :
        /\ Len(req[r].parseCalls) = 1
        /\ Cardinality({i \in 0..(Length - 1) :
                           /\ GetPlugin(i).err = Nil
                           /\ GetPlugin(i).plugin.requiresFullParsing}) >= 2

Unresolved(i) == GetPlugin(i).err # Nil

\* chain positions whose plugin HandleRequestBody calls Extract or Select on
Callable(i) ==
    /\ ~Unresolved(i)
    /\ GetPlugin(i).plugin.Type \in {"MetadataExtractor", "ModelSelector"}
    /\ GetPlugin(i).plugin.iface = GetPlugin(i).plugin.Type

\* C7: with an unresolvable chain entry, a call in which no parse and no plugin
\* failed completes with responses, and every other callable entry was executed.
C7_UnresolvedEntrySkipped ==
    \A r \in Requests :
        (/\ req[r].pc = "done"
         /\ req[r].err = Nil
         /\ \E i \in 0..(Length - 1) : Unresolved(i))
        => /\ ~req[r].panicked
           /\ Len(req[r].ret) >= 1
           /\ \A i \in 0..(Length - 1) :
                 Callable(i) => \E k \in 1..Len(req[r].executed) :
                                    req[r].executed[k] = i

ParseOf(which, data) ==
    IF which = "/v1/completions" THEN Unmarshal("CompletionNewParams", data).value
    ELSE Unmarshal("ChatCompletionNewParams", data).value

\* C8: every plugin of a request is given the shared parse of that request's
\* own body, and the model value it extracts is the one of that body.
C8_RequestScopedParse ==
    \A r \in Requests :
        (req[r].lastOut.kind # "none" /\ req[r].which # "")
        => /\ req[r].lastOut.sharedMemory = ParseOf(req[r].which, req[r].body)
           /\ (req[r].lastOut.err = Nil /\ ModelHeaderKey \in DOMAIN req[r].allHeaders)
                 => req[r].allHeaders[ModelHeaderKey] = req[r].body.model

ServingStep == \E r \in Requests : req'[r] # req[r]

RequiresParsing ==
    \E i \in 0..(Length - 1) :
        ~Unresolved(i) /\ GetPlugin(i).plugin.requiresFullParsing

UnsupportedRegistration(o) ==
    \/ o.op = "RegisterFactory" /\ o.key \notin DOMAIN SupportedInterfaces
    \/ /\ o.op = "RegisterPlugin"
       /\ (\/ o.key \notin DOMAIN SupportedInterfaces
           \/ o.name \notin SupportedInterfaces[o.key])

\* C10: RegisterFactory of an unsupported type and RegisterPlugin of an
\* unsupported type or implementation name return an error and leave the
\* factory map and the instance map as they were.
C10_UnsupportedRegistrationRejected ==
    [][UnsupportedRegistration(opRes') =>
          /\ opRes'.err # Nil
          /\ UNCHANGED <<pluginsFactory, plugins>>]_vars

\* an unsupported implementation of a supported type was offered while the
\* type had a factory and an instance
C10_Witness ==
    /\ opRes.op = "RegisterPlugin"
    /\ opRes.key \in DOMAIN SupportedInterfaces
    /\ opRes.name \notin SupportedInterfaces[opRes.key]
    /\ opRes.err # Nil
    /\ opRes.key \in DOMAIN pluginsFactory
    /\ opRes.key \in DOMAIN plugins

SupportedPair(key, name) ==
    key \in DOMAIN SupportedInterfaces /\ name \in SupportedInterfaces[key]

\* C11: RegisterPlugin called while its type has no factory (none registered
\* yet, or removed by UnregisterFactory or Clear) returns an error and leaves
\* both registry maps unchanged; for a supported type/name pair whose type has
\* a factory it succeeds and stores the instance under its type.
C11_RegisterPluginNeedsFactory ==
    [][opRes'.op = "RegisterPlugin" =>
          /\ opRes'.key \notin DOMAIN pluginsFactory
                => (opRes'.err # Nil /\ UNCHANGED <<pluginsFactory, plugins>>)
          /\ (opRes'.key \in DOMAIN pluginsFactory
                /\ SupportedPair(opRes'.key, opRes'.name))
                => /\ opRes'.err = Nil
                   /\ UNCHANGED pluginsFactory
                   /\ opRes'.key \in DOMAIN plugins'
                   /\ plugins'[opRes'.key].Name = opRes'.name]_vars

\* a supported instance was refused for want of a factory although an
\* instance of its type is registered: the factory was unregistered in between
C11_Witness ==
    /\ opRes.op = "RegisterPlugin"
    /\ SupportedPair(opRes.key, opRes.name)
    /\ opRes.err = "no plugin factory registered for plugin interface type"
    /\ opRes.key \in DOMAIN plugins

\* C12: a successful RegisterPlugin of an instance p of type T makes the
\* registry's GetPlugin(T) return exactly p, whatever instance of T was
\* registered before, lists T among the plugins, and leaves the instances of
\* the other types as they were.
C12_OneInstancePerType ==
    [][\A p \in SupportedPlugins \cup UnsupportedPlugins :
          (RegisterPlugin(p) /\ opRes'.err = Nil)
          => /\ RegistryGetPlugin(p.Type)' = [plugin |-> p, err |-> Nil]
             /\ p.Type \in ListPlugins'
             /\ ListPlugins' = ListPlugins \cup {p.Type}
             /\ \A t \in ListPlugins \ {p.Type} : plugins'[t] = plugins[t]]_vars

\* the second GuardRail implementation is the registered one, next to
\* instances of the other two types
C12_Witness ==
    /\ opRes.op = "RegisterPlugin"
    /\ opRes.err = Nil
    /\ opRes.name = "pid-disclosure-blocker"
    /\ RegistryGetPlugin("GuardRail") = [plugin |-> PidDisclosureBlocker, err |-> Nil]
    /\ ListPlugins = DOMAIN SupportedInterfaces

\* the step re-adds to the chain the type key that the step before deleted
ReAddAfterDelete ==
    /\ opRes.op = "DeletePlugin"
    /\ opRes.err = Nil
    /\ opRes'.op = "AddPlugin"
    /\ opRes'.key = opRes.key

\* C13: DeletePlugin leaves the registry's factory and instance maps
\* unchanged, and an AddPlugin of the deleted type key that follows it with no
\* registry operation in between succeeds.
C13_ReAddSucceeds ==
    [][/\ opRes'.op = "DeletePlugin" => UNCHANGED <<pluginsFactory, plugins>>
       /\ ReAddAfterDelete => opRes'.err = Nil]_vars

\* C13 (amended): DeletePlugin leaves the registry's factory and instance maps
\* unchanged; an AddPlugin of the deleted type key that follows it with no
\* registry operation in between succeeds exactly when the registry holds an
\* instance of that type, and then appends the key.
C13_ReAddNeedsInstance ==
    [][/\ opRes'.op = "DeletePlugin" => UNCHANGED <<pluginsFactory, plugins>>
       /\ ReAddAfterDelete
            => /\ opRes'.err = Nil <=> opRes.key \in DOMAIN plugins
               /\ opRes'.err = Nil => chainPlugins' = Append(chainPlugins, opRes.key)
               /\ opRes'.err # Nil => UNCHANGED chainPlugins]_vars

\* a registered type was deleted from the chain and is still registered
C13_Witness ==
    /\ opRes.op = "DeletePlugin"
    /\ opRes.err = Nil
    /\ opRes.key \in DOMAIN plugins
    /\ opRes.key \in DOMAIN pluginsFactory
    /\ FirstIndex(opRes.key) = 0

\* C15: AddPlugin(type, registry) succeeds exactly when the registry holds an
\* instance of the type at the time of the call; on success the key is
\* appended (Length + 1, earlier entries where they were), on failure the
\* chain is unchanged.
C15_AddPluginAppends ==
    [][opRes'.op = "AddPlugin" =>
          /\ opRes'.err = Nil <=> opRes'.key \in DOMAIN plugins
          /\ opRes'.err = Nil
               => /\ Len(chainPlugins') = Length + 1
                  /\ chainPlugins'[Length + 1] = opRes'.key
                  /\ \A j \in 1..Length : chainPlugins'[j] = chainPlugins[j]
          /\ opRes'.err # Nil => UNCHANGED chainPlugins
          /\ UNCHANGED <<pluginsFactory, plugins>>]_vars

\* a key was appended behind an entry of another type
C15_Witness ==
    /\ opRes.op = "AddPlugin"
    /\ opRes.err = Nil
    /\ Length >= 2
    /\ chainPlugins[Length] = opRes.key
    /\ chainPlugins[Length - 1] # opRes.key

C14_ChainGetPlugin ==
    [][opRes'.op = "GetPlugin" =>
          \E index \in -1..(MaxChainLen + 1) :
             /\ opRes'.key = ToString(index)
             /\ opRes'.err = GetPlugin(index).err
             /\ opRes'.name = GetPlugin(index).plugin.Name
             /\ IF index < 0 \/ index >= Length
                THEN GetPlugin(index).err = "plugin index out of range"
                ELSE IF chainPlugins[index + 1] \in ListPlugins
                THEN /\ GetPlugin(index).err = Nil
                     /\ GetPlugin(index).plugin = plugins[chainPlugins[index + 1]]
                     /\ GetPlugin(index).plugin # NilPlugin
                ELSE GetPlugin(index).err = "plugin index is not found in the registry"
             /\ UNCHANGED <<registryVars, chainVars>>]_vars

\* the entry asked for is in range and its type has no instance in the registry
C14_Witness ==
    /\ opRes.op = "GetPlugin"
    /\ opRes.key = "1"
    /\ Length = 2
    /\ opRes.err = "plugin index is not found in the registry"
    /\ chainPlugins[2] \notin ListPlugins

\* C16: AddPluginAtInd(type, i, registry) inserts the type key at position i
\* for every 0 <= i <= Length(), i = Length() and i = 0 on an empty chain
\* included: the entry at i is the type, the entries formerly at positions
\* >= i move up by one in order, Length + 1; for i outside [0, Length()] it
\* returns the index-out-of-range error and leaves the chain unchanged.
C16_InsertAtEveryIndex ==
    [][opRes'.op = "AddPluginAtInd" =>
          \E i \in -1..(MaxChainLen + 1) :
             /\ opRes'.name = ToString(i)
             /\ IF 0 <= i /\ i <= Length
                THEN /\ opRes'.err = Nil
                     /\ Len(chainPlugins') = Length + 1
                     /\ chainPlugins'[i + 1] = opRes'.key
                     /\ \A j \in 1..i : chainPlugins'[j] = chainPlugins[j]
                     /\ \A j \in (i + 1)..Length : chainPlugins'[j + 1] = chainPlugins[j]
                ELSE /\ opRes'.err = "index is out of range"
                     /\ UNCHANGED chainPlugins]_vars

\* the call of r returned responses and the accumulator holds a model: the
\* handler's test, a non-empty value under X-Gateway-Model-Name
ModelHeaderPresent(r) ==
    /\ req[r].pc = "done"
    /\ req[r].err = Nil
    /\ ~req[r].panicked
    /\ ModelHeader \in DOMAIN req[r].allHeaders
    /\ req[r].allHeaders[ModelHeader] # ""

\* C18: in non-streaming mode, when the accumulator holds a model,
\* HandleRequestBody returns exactly one response, of kind RequestBody, with
\* the effective body as a full body mutation, a header mutation setting
\* X-Gateway-Model-Name to the accumulated value and nothing else, and the
\* clear-route-cache flag set.
C18_NonStreamingResponse ==
    \A r \in Requests :
        (ModelHeaderPresent(r) /\ ~server.streaming) =>
            /\ Len(req[r].ret) = 1
            /\ req[r].ret[1].kind = "RequestBody"
            /\ req[r].ret[1].clearRouteCache
            /\ req[r].ret[1].setHeaders
                 = <<<<"X-Gateway-Model-Name", req[r].allHeaders[ModelHeader]>>>>
            /\ req[r].ret[1].bodyMutation.type = "Body"
            /\ req[r].ret[1].bodyMutation.body = req[r].mutatedBodyBytes
            /\ req[r].lastOut.kind = "Select"
                 => req[r].ret[1].bodyMutation.body = req[r].lastOut.mutatedBodyBytes
            /\ (\A k \in 1..Len(req[r].executed) :
                    GetPlugin(req[r].executed[k]).plugin.Type # "ModelSelector")
                 => req[r].ret[1].bodyMutation.body = req[r].body

\* a non-streaming call whose selector rewrote the body and set the model
C18_Witness ==
    \E r \in Requests :
        /\ ModelHeaderPresent(r)
        /\ ~server.streaming
        /\ req[r].lastOut.kind = "Select"
        /\ req[r].mutatedBodyBytes # req[r].body
        /\ Len(req[r].ret) = 1

\* C19: in streaming mode, when the accumulator holds a model,
\* HandleRequestBody returns exactly two responses: first a RequestHeaders
\* response with the header mutation for X-Gateway-Model-Name and the
\* clear-route-cache flag, then a RequestBody response carrying the effective
\* body as a streamed chunk with end-of-stream set.
C19_StreamingResponses ==
    \A r \in Requests :
        (ModelHeaderPresent(r) /\ server.streaming) =>
            /\ Len(req[r].ret) = 2
            /\ req[r].ret[1].kind = "RequestHeaders"
            /\ req[r].ret[1].clearRouteCache
            /\ req[r].ret[1].setHeaders
                 = <<<<"X-Gateway-Model-Name", req[r].allHeaders[ModelHeader]>>>>
            /\ req[r].ret[1].bodyMutation = NoBodyMutation
            /\ req[r].ret[2].kind = "RequestBody"
            /\ req[r].ret[2].bodyMutation.type = "StreamedResponse"
            /\ req[r].ret[2].bodyMutation.endOfStream
            /\ req[r].ret[2].bodyMutation.body = req[r].mutatedBodyBytes
            /\ req[r].ret[2].setHeaders = <<>>

\* a streaming call whose selector rewrote the body and set the model
C19_Witness ==
    \E r \in Requests :
        /\ ModelHeaderPresent(r)
        /\ server.streaming
        /\ req[r].mutatedBodyBytes # req[r].body
        /\ Len(req[r].ret) = 2

\* C20: within one call the plugins run in chain order and none is retried:
\* the chain positions whose Extract/Select was invoked form a strictly
\* increasing sequence, so each entry is invoked at most once and never after
\* a later one.
C20_SequentialNoRetry ==
    \A r \in Requests :
        /\ \A a, b \in 1..Len(req[r].executed) :
              a < b => req[r].executed[a] < req[r].executed[b]
        /\ \A a \in 1..Len(req[r].executed) :
              /\ req[r].executed[a] < Length
              /\ req[r].executed[a] <= req[r].i

\* both entries of a two-plugin chain ran, position 0 first, and the second failed
C20_Witness ==
    \E r \in Requests :
        /\ req[r].pc = "done"
        /\ req[r].executed = <<0, 1>>
        /\ req[r].err # Nil
        /\ req[r].lastOut.err # Nil

\* the last Extract or Select invoked for r returned an error
PluginFailed(r) ==
    /\ req[r].lastOut.kind \in {"Extract", "Select"}
    /\ req[r].lastOut.err # Nil

\* C21: when Extract or Select returns an error, HandleRequestBody returns
\* that error and no responses, no plugin at a later chain position is
\* executed, and neither 'success' nor 'model not found' is recorded.
C21_PluginErrorAborts ==
    \A r \in Requests :
        PluginFailed(r) =>
            /\ req[r].pc = "done"
            /\ req[r].err = req[r].lastOut.err
            /\ req[r].ret = <<>>
            /\ req[r].executed # <<>>
            /\ req[r].executed[Len(req[r].executed)] = req[r].i
            /\ \A k \in 1..Len(req[r].executed) : req[r].executed[k] <= req[r].i
            /\ req[r].successCounter = 0
            /\ req[r].modelNotInBodyCounter = 0

\* the plugin at position 0 failed while a runnable plugin waited at position 1
C21_Witness ==
    \E r \in Requests :
        /\ PluginFailed(r)
        /\ req[r].executed = <<0>>
        /\ Length = 2
        /\ GetPlugin(1).err = Nil
        /\ GetPlugin(1).plugin.Type \in {"MetadataExtractor", "ModelSelector"}

\* C22: the effective body is the body returned by the last ModelSelector
\* executed (whatever an earlier selector returned), and the original request
\* body when no selector was executed: it starts as the request body, every
\* executed selector replaces it by its own output, nothing else changes it,
\* and it is the body carried by the response that sets the model header.
C22_LastSelectorWins ==
    [][\A r \in Requests :
          /\ (req[r].pc = "idle" /\ req'[r].pc # "idle")
                => req'[r].mutatedBodyBytes = req'[r].body
          /\ (req[r].pc = "exec" /\ req'[r].pc = "exec")
                => IF Len(req'[r].executed) > Len(req[r].executed)
                      /\ req'[r].lastOut.kind = "Select"
                   THEN req'[r].mutatedBodyBytes = req'[r].lastOut.mutatedBodyBytes
                   ELSE req'[r].mutatedBodyBytes = req[r].mutatedBodyBytes
          /\ (req[r].pc = "exec" /\ req'[r].pc = "done" /\ req'[r].successCounter = 1)
                => /\ req'[r].ret # <<>>
                   /\ req'[r].ret[Len(req'[r].ret)].bodyMutation.body
                        = req[r].mutatedBodyBytes
                   /\ req'[r].body = req[r].body]_vars

\* two selectors ran and the response carries the body the second one returned
C22_Witness ==
    \E r \in Requests :
        /\ req[r].pc = "done"
        /\ req[r].successCounter = 1
        /\ req[r].executed = <<0, 1>>
        /\ chainPlugins = <<"ModelSelector", "ModelSelector">>
        /\ req[r].lastOut.kind = "Select"
        /\ req[r].ret[Len(req[r].ret)].bodyMutation.body = req[r].lastOut.mutatedBodyBytes

\* C23: whenever the accumulator holds the canonical model header at the end
\* of the chain, whatever value was stored under it, 'success' is recorded
\* (not 'model not found') and a response carries the header mutation setting
\* X-Gateway-Model-Name to the accumulated value.
C23_AnyModelValueSucceeds ==
    \A r \in Requests :
        (/\ req[r].pc = "done"
         /\ req[r].err = Nil
         /\ ~req[r].panicked
         /\ ModelHeader \in DOMAIN req[r].allHeaders)
        => /\ req[r].successCounter = 1
           /\ req[r].modelNotInBodyCounter = 0
           /\ \E k \in 1..Len(req[r].ret) :
                 req[r].ret[k].setHeaders
                   = <<<<"X-Gateway-Model-Name", req[r].allHeaders[ModelHeader]>>>>

ParseEndpoint == server.endpoint \in {EndpointCompletions, EndpointChatCompletions}

EndpointKey ==
    IF server.endpoint = EndpointCompletions THEN "/v1/completions"
    ELSE "/v1/chat/completions"

\* C24: when a chain member requires full parsing and the endpoint is
\* /v1/completions or /v1/chat/completions, the body is parsed into the
\* endpoint's shape before any plugin's Extract/Select is invoked (a failed
\* parse ends the call with no plugin run), and every plugin executed is
\* passed that populated shape.
C24_ParseBeforePlugins ==
    \A r \in Requests :
        (RequiresParsing /\ ParseEndpoint /\ req[r].pc # "idle") =>
            /\ Len(req[r].parseCalls) = 1
            /\ IF Unmarshal("CompletionNewParams", req[r].body).err # Nil
               THEN /\ req[r].err # Nil
                    /\ req[r].executed = <<>>
                    /\ req[r].lastOut = NoOut
               ELSE /\ req[r].which = EndpointKey
                    /\ GetSharedMemory(req[r].which) = ParseOf(EndpointKey, req[r].body)
                    /\ GetSharedMemory(req[r].which).shape # "nil"
                    /\ req[r].lastOut.kind # "none"
                         => req[r].lastOut.sharedMemory
                              = ParseOf(EndpointKey, req[r].body)

\* the member requiring full parsing is second in the chain, and the plugin
\* in front of it was passed the parsed body
C24_Witness ==
    \E r \in Requests :
        /\ ParseEndpoint
        /\ Length = 2
        /\ ~Unresolved(0) /\ ~GetPlugin(0).plugin.requiresFullParsing
        /\ ~Unresolved(1) /\ GetPlugin(1).plugin.requiresFullParsing
        /\ req[r].executed = <<0>>
        /\ req[r].lastOut.sharedMemory.shape # "nil"
        /\ req[r].lastOut.sharedMemory.Model = "foo"

\* the plugin whose Extract or Select ran last for r
LastExecuted(r) == GetPlugin(req[r].executed[Len(req[r].executed)]).plugin

\* C25: when no chain member requires full parsing, the call invokes no parse
\* operation, and the simple-model-extractor falls back to its own parse: for
\* a well-formed body its Extract returns, without error, a header map
\* holding the body's model value.
C25_NoParseFallback ==
    \A r \in Requests :
        (~RequiresParsing /\ req[r].pc # "idle") =>
            /\ req[r].parseCalls = <<>>
            /\ req[r].which = ""
            /\ (/\ req[r].executed # <<>>
                /\ req[r].lastOut.kind = "Extract"
                /\ LastExecuted(r).impl = "simpleModelExtractor"
                /\ req[r].body.json = "object")
               => /\ req[r].lastOut.err = Nil
                  /\ \E k \in DOMAIN req[r].lastOut.headers :
                        req[r].lastOut.headers[k] = req[r].body.model

\* the second loop of r stands at a registered entry of a capability type
\* other than MetadataExtractor and ModelSelector
AtUnknownType(r) ==
    /\ req[r].pc = "exec"
    /\ req[r].i < Length
    /\ ~Unresolved(req[r].i)
    /\ GetPlugin(req[r].i).plugin.Type \notin {"MetadataExtractor", "ModelSelector"}

\* C26: a chain entry whose type is neither MetadataExtractor nor
\* ModelSelector (a registered GuardRail) is never executed: the loop steps
\* over it, the header accumulator and the effective body are after it what
\* they were before it, and the call goes on with the next entry.
C26_UnknownTypeSkipped ==
    [][\A r \in Requests :
          /\ (AtUnknownType(r) /\ req'[r] # req[r])
                => /\ req'[r].pc = "exec"
                   /\ req'[r].i = req[r].i + 1
                   /\ req'[r].executed = req[r].executed
                   /\ req'[r].allHeaders = req[r].allHeaders
                   /\ req'[r].mutatedBodyBytes = req[r].mutatedBodyBytes
                   /\ req'[r].err = Nil
          /\ \A k \in 1..Len(req[r].executed) :
                GetPlugin(req[r].executed[k]).plugin.Type
                  \in {"MetadataExtractor", "ModelSelector"}]_vars

\* the GuardRail at position 0 was stepped over and the plugin behind it ran
C26_Witness ==
    \E r \in Requests :
        /\ Length = 2
        /\ ~Unresolved(0)
        /\ GetPlugin(0).plugin.Type = "GuardRail"
        /\ req[r].executed = <<1>>
        /\ req[r].pc = "done"
        /\ req[r].err = Nil
        /\ Len(req[r].ret) >= 1

\* C27: when a chain member requires full parsing and the body is not valid
\* structured data, the call fails: it returns the parse error and no
\* responses, no plugin is executed, and the malformed-body counter is
\* incremented.
C27_MalformedBodyFails ==
    \A r \in Requests :
        (RequiresParsing /\ req[r].body.json = "malformed" /\ req[r].pc = "done")
        => /\ req[r].err = "unmarshal error"
           /\ req[r].ret = <<>>
           /\ req[r].executed = <<>>
           /\ req[r].modelNotParsedCounter = 1

\* C28: GetSharedMemory("/v1/completions") returns the chain's cached
\* completions shape, GetSharedMemory("/v1/chat/completions") the cached chat
\* shape, every other key an absent value; a successful ParseCompletion or
\* ParseChatCompletion replaces the cached shape of its own kind by the parse
\* of its data and leaves the cached shape of the other kind as it was.
C28_SharedMemoryByKind ==
    [][/\ opRes'.op = "GetSharedMemory"
            => /\ GetSharedMemory(opRes'.key)
                    = CASE opRes'.key = "/v1/completions" -> sharedCompletion
                        [] opRes'.key = "/v1/chat/completions" -> sharedChatCompletion
                        [] OTHER -> NilShared
               /\ opRes'.name = GetSharedMemory(opRes'.key).shape
               /\ opRes'.name = CASE opRes'.key = "/v1/completions" -> "CompletionNewParams"
                                  [] opRes'.key = "/v1/chat/completions"
                                       -> "ChatCompletionNewParams"
                                  [] OTHER -> "nil"
               /\ UNCHANGED <<sharedCompletion, sharedChatCompletion>>
       /\ (opRes'.op = "ParseCompletion" /\ opRes'.err = Nil)
            => /\ sharedCompletion'.shape = "CompletionNewParams"
               /\ sharedCompletion'.Model = opRes'.name
               /\ GetSharedMemory("/v1/completions")' = sharedCompletion'
               /\ UNCHANGED sharedChatCompletion
       /\ (opRes'.op = "ParseChatCompletion" /\ opRes'.err = Nil)
            => /\ sharedChatCompletion'.shape = "ChatCompletionNewParams"
               /\ sharedChatCompletion'.Model = opRes'.name
               /\ GetSharedMemory("/v1/chat/completions")' = sharedChatCompletion'
               /\ UNCHANGED sharedCompletion]_vars

\* a completions parse replaced an earlier one while the chat shape parsed
\* from another body stayed in the cache
C28_Witness ==
    /\ opRes.op = "ParseCompletion"
    /\ opRes.err = Nil
    /\ sharedCompletion.Model = "foo"
    /\ sharedChatCompletion.Model = "bar"
    /\ GetSharedMemory("/v1/chat/completions").Model = "bar"

\* map m2 is map m without its entry for key k, all other entries as in m
RemovedOnly(m, m2, k) ==
    /\ DOMAIN m2 = DOMAIN m \ {k}
    /\ \A t \in DOMAIN m2 : m2[t] = m[t]

\* C29: UnregisterFactory(T) and UnregisterPlugin(T) return a not-found error
\* and change nothing when T is absent from their map; otherwise they remove
\* exactly the entry T from their own map, leave the other map alone, and
\* GetFactory(T), respectively GetPlugin(T), fails with not-found afterwards.
C29_UnregisterRemovesOneEntry ==
    [][/\ opRes'.op = "UnregisterFactory"
            => IF opRes'.key \notin DOMAIN pluginsFactory
               THEN /\ opRes'.err = "plugin not found"
                    /\ UNCHANGED <<pluginsFactory, plugins, chainPlugins>>
               ELSE /\ opRes'.err = Nil
                    /\ RemovedOnly(pluginsFactory, pluginsFactory', opRes'.key)
                    /\ UNCHANGED <<plugins, chainPlugins>>
                    /\ \E t \in ConfigKeys :
                          t = opRes'.key /\ GetFactory(t)'.err = "plugin type not found"
       /\ opRes'.op = "UnregisterPlugin"
            => IF opRes'.key \notin DOMAIN plugins
               THEN /\ opRes'.err = "plugin not found"
                    /\ UNCHANGED <<pluginsFactory, plugins, chainPlugins>>
               ELSE /\ opRes'.err = Nil
                    /\ RemovedOnly(plugins, plugins', opRes'.key)
                    /\ UNCHANGED <<pluginsFactory, chainPlugins>>
                    /\ \E t \in ConfigKeys :
                          /\ t = opRes'.key
                          /\ RegistryGetPlugin(t)'.err = "plugin type not found"]_vars

\* a factory was removed while the instance of its type and the factory of
\* another type stayed registered
C29_Witness ==
    /\ opRes.op = "UnregisterFactory"
    /\ opRes.err = Nil
    /\ opRes.key \in DOMAIN plugins
    /\ opRes.key \notin DOMAIN pluginsFactory
    /\ pluginsFactory # EmptyMap

\* how a chain definition line reads: blank or comment, without separator,
\* or a pair of capability type and implementation name
IgnoredLine(l) == TrimSpace(l) = <<>> \/ HasPrefix(TrimSpace(l), <<"#">>)

NoSeparatorLine(l) == ~IgnoredLine(l) /\ Len(SplitN2(TrimSpace(l), ":")) # 2

SupportedPairLine(l) ==
    /\ ~IgnoredLine(l)
    /\ ~NoSeparatorLine(l)
    /\ LET kv == SplitN2(TrimSpace(l), ":") IN
       /\ Len(TrimSpace(kv[1])) = 1
       /\ Len(TrimSpace(kv[2])) = 1
       /\ SupportedPair(TrimSpace(kv[1])[1], TrimSpace(kv[2])[1])

\* the capability types of the supported pairs of a definition, in order
RECURSIVE NamedTypes(_)
NamedTypes(lines) ==
    IF lines = <<>> THEN <<>>
    ELSE IF SupportedPairLine(Head(lines))
    THEN <<TrimSpace(SplitN2(TrimSpace(Head(lines)), ":")[1])[1]>>
           \o NamedTypes(Tail(lines))
    ELSE NamedTypes(Tail(lines))

EnvLines ==
    {env.REQUEST_PLUGINS_CHAIN[k] : k \in 1..Len(env.REQUEST_PLUGINS_CHAIN)}
      \cup {env.RESPONSE_PLUGINS_CHAIN[k] : k \in 1..Len(env.RESPONSE_PLUGINS_CHAIN)}

\* C30: initialization yields, for each chain, the capability types of its
\* well-formed lines naming a supported pair, in order, each with factory and
\* instance registered; blank and # lines contribute nothing; a line without
\* ':' makes initialization fail. (A request chain left empty is given the
\* default MetadataExtractor.)
C30_ChainsFromConfiguration ==
    initPlugins.returned =>
        /\ (\E l \in EnvLines : NoSeparatorLine(l)) => initPlugins.err # Nil
        /\ (\A l \in EnvLines : IgnoredLine(l) \/ SupportedPairLine(l))
             => /\ initPlugins.err = Nil
                /\ chainPlugins
                     = IF NamedTypes(env.REQUEST_PLUGINS_CHAIN) = <<>>
                       THEN <<DefaultPluginType>>
                       ELSE NamedTypes(env.REQUEST_PLUGINS_CHAIN)
                /\ initPlugins.responseChain = NamedTypes(env.RESPONSE_PLUGINS_CHAIN)
                /\ \A k \in 1..Len(chainPlugins) :
                      /\ chainPlugins[k] \in DOMAIN plugins
                      /\ chainPlugins[k] \in DOMAIN pluginsFactory
                /\ \A k \in 1..Len(initPlugins.responseChain) :
                      /\ initPlugins.responseChain[k] \in DOMAIN plugins
                      /\ initPlugins.responseChain[k] \in DOMAIN pluginsFactory

\* C31: AddPluginAtInd, like AddPlugin, refuses a type key of which the
\* registry holds no instance: it returns an error and leaves the chain
\* unchanged, so no chain operation adds a key that has no registry instance
\* at the time of the call.
C31_InsertNeedsInstance ==
    [][/\ (opRes'.op = "AddPluginAtInd" /\ opRes'.key \notin DOMAIN plugins)
            => (opRes'.err # Nil /\ UNCHANGED chainPlugins)
       /\ (opRes'.op \in {"AddPlugin", "AddPluginAtInd"}
             /\ Len(chainPlugins') > Len(chainPlugins))
            => opRes'.key \in DOMAIN plugins]_vars

\* types that have an instance and no factory
Factoryless == DOMAIN plugins \ DOMAIN pluginsFactory

C33_RegistryKeysSupported ==
    /\ \A t \in DOMAIN pluginsFactory : t \in DOMAIN SupportedInterfaces
    /\ \A t \in DOMAIN plugins :
          /\ t \in DOMAIN SupportedInterfaces
          /\ plugins[t].Type = t
          /\ plugins[t].Name \in SupportedInterfaces[t]

\* a factory for a type outside the table was just refused while all three
\* supported types have a factory and an instance
C33_Witness ==
    /\ opRes.op = "RegisterFactory"
    /\ opRes.key \notin DOMAIN SupportedInterfaces
    /\ opRes.err = "non-supported plugin interface type"
    /\ DOMAIN pluginsFactory = DOMAIN SupportedInterfaces
    /\ DOMAIN plugins = DOMAIN SupportedInterfaces

\* some response of r carries a header mutation
CarriesHeaderMutation(r) ==
    \E k \in 1..Len(req[r].ret) : req[r].ret[k].setHeaders # <<>>

\* the responses of r mutate nothing: no header is set, no route cache is
\* cleared, and a body is carried only as the stream's chunk of the body
\* that came in
PassThrough(r) ==
    /\ req[r].ret # <<>>
    /\ \A k \in 1..Len(req[r].ret) :
          /\ req[r].ret[k].setHeaders = <<>>
          /\ ~req[r].ret[k].clearRouteCache
          /\ req[r].ret[k].bodyMutation.type # "Body"
          /\ req[r].ret[k].bodyMutation.type = "StreamedResponse"
               => req[r].ret[k].bodyMutation.body = req[r].body

\* C34: a call that returns without error records exactly one of 'success'
\* and 'model not found', once: 'success' exactly when the response carries
\* a header mutation, 'model not found' exactly when it is a pass-through; a
\* call that returns an error records neither.
C34_ExactlyOneSignal ==
    \A r \in Requests :
        /\ (req[r].pc = "done" /\ ~req[r].panicked /\ req[r].err = Nil)
             => /\ req[r].successCounter + req[r].modelNotInBodyCounter = 1
                /\ req[r].successCounter = 1 <=> CarriesHeaderMutation(r)
                /\ req[r].modelNotInBodyCounter = 1 <=> PassThrough(r)
        /\ (req[r].pc = "done" /\ req[r].err # Nil)
             => (req[r].successCounter = 0 /\ req[r].modelNotInBodyCounter = 0)
        /\ req[r].pc # "done"
             => (req[r].successCounter = 0 /\ req[r].modelNotInBodyCounter = 0)

\* a non-streaming pass-through after plugins ran and set other headers
C34_Witness ==
    \E r \in Requests :
        /\ req[r].pc = "done"
        /\ req[r].err = Nil
        /\ ~server.streaming
        /\ req[r].modelNotInBodyCounter = 1
        /\ req[r].successCounter = 0
        /\ req[r].executed = <<0, 1>>
        /\ req[r].allHeaders # EmptyMap
        /\ PassThrough(r)

\* C35: when InitPlugins returns without error, the request chain is
\* non-empty and each of its entries resolves to an instance registered in
\* the returned registry (with REQUEST_PLUGINS_CHAIN empty or unset the chain
\* is exactly the default MetadataExtractor), and the metadata keys are the
\* trimmed comma-separated parts of METADATA_KEYS, or the single key model
\* when that variable is unset.
C35_InitPluginsResult ==
    (initPlugins.returned /\ initPlugins.err = Nil) =>
        /\ Length >= 1
        /\ \A i \in 0..(Length - 1) :
              /\ GetPlugin(i).err = Nil
              /\ GetPlugin(i).plugin.Type = chainPlugins[i + 1]
        /\ env.REQUEST_PLUGINS_CHAIN = <<>>
             => /\ chainPlugins = <<DefaultPluginType>>
                /\ GetPlugin(0).plugin = NewSimpleModelExtractor
        /\ IF env.METADATA_KEYS = <<>>
           THEN initPlugins.metaDataKeys = <<<<"model">>>>
           ELSE /\ Len(initPlugins.metaDataKeys) = Len(Split(env.METADATA_KEYS, ","))
                /\ \A k \in 1..Len(initPlugins.metaDataKeys) :
                      /\ initPlugins.metaDataKeys[k]
                           = TrimSpace(Split(env.METADATA_KEYS, ",")[k])
                      /\ \A j \in 1..Len(initPlugins.metaDataKeys[k]) :
                            initPlugins.metaDataKeys[k][j] \notin {" ", ","}

\* the default chain and two keys trimmed out of a METADATA_KEYS value
C35_Witness ==
    /\ initPlugins.returned
    /\ initPlugins.err = Nil
    /\ env.REQUEST_PLUGINS_CHAIN = <<>>
    /\ chainPlugins = <<"MetadataExtractor">>
    /\ env.METADATA_KEYS = <<" ", "model", " ", ",", "user", " ">>
    /\ initPlugins.metaDataKeys = <<<<"model">>, <<"user">>>>



\* the model field of the body passed to Execute is a non-empty string
ModelFieldNamed ==
    /\ modelField \in DOMAIN execCall.argBody
    /\ execCall.argBody[modelField].kind = "string"
    /\ execCall.argBody[modelField].s # ""

\* the base model the configured datastore knows for the body's model
KnownBaseModel ==
    IF execCall.datastore.configured
         /\ execCall.argBody[modelField].s \in DOMAIN execCall.datastore.baseModels
    THEN execCall.datastore.baseModels[execCall.argBody[modelField].s]
    ELSE ""

\* C36: ModelExtractorPlugin.Execute never changes the body; with a
\* non-empty string in the body's model field it sets X-Gateway-Model-Name
\* to it and sets X-Gateway-Base-Model-Name exactly when a datastore is
\* configured and GetBaseModel returns a non-empty name, every other header
\* staying as it was; with the model field missing, not a string or empty
\* the headers are returned unchanged.
C36_ModelToHeader ==
    execCall.op = "ModelExtractorPlugin.Execute" =>
        /\ execCall.ret.err = Nil
        /\ execCall.ret.body = execCall.argBody
        /\ execCall.body = execCall.argBody
        /\ execCall.ret.headers = execCall.headers
        /\ IF ModelFieldNamed
           THEN /\ DOMAIN execCall.ret.headers
                     = DOMAIN execCall.argHeaders \cup {modelHeader}
                         \cup (IF KnownBaseModel # "" THEN {baseModelHeader} ELSE {})
                /\ execCall.ret.headers[modelHeader] = execCall.argBody[modelField].s
                /\ KnownBaseModel # ""
                     => execCall.ret.headers[baseModelHeader] = KnownBaseModel
                /\ \A k \in DOMAIN execCall.argHeaders :
                      (k # modelHeader /\ ~(k = baseModelHeader /\ KnownBaseModel # ""))
                        => execCall.ret.headers[k] = execCall.argHeaders[k]
           ELSE execCall.ret.headers = execCall.argHeaders

\* a named model, a datastore that knows no base model for it, and headers
\* that gained the model header only
C36_Witness ==
    /\ execCall.op = "ModelExtractorPlugin.Execute"
    /\ ModelFieldNamed
    /\ execCall.datastore.configured
    /\ KnownBaseModel = ""
    /\ execCall.argHeaders = [k \in {"x-request-id"} |-> "1"]
    /\ DOMAIN execCall.ret.headers = {"x-request-id", modelHeader}

\* C37: BodyFieldToHeaderPlugin.Execute returns a new header map whose
\* keys are exactly the configured header names whose body field exists,
\* each valued with the field's string form; the map passed in is not
\* modified, none of its entries is carried over, the body is unchanged.
C37_BodyFieldToHeader ==
    execCall.op = "BodyFieldToHeaderPlugin.Execute" =>
        /\ execCall.ret.err = Nil
        /\ execCall.ret.body = execCall.argBody
        /\ execCall.body = execCall.argBody
        /\ execCall.headers = execCall.argHeaders
        /\ DOMAIN execCall.ret.headers
             = {h \in DOMAIN execCall.headerToFieldMap :
                  execCall.headerToFieldMap[h] \in DOMAIN execCall.argBody}
        /\ \A h \in DOMAIN execCall.ret.headers :
              LET v == execCall.argBody[execCall.headerToFieldMap[h]]
              IN  execCall.ret.headers[h]
                    = CASE v.kind = "string" -> v.s
                        [] v.kind = "float64" -> "5"
                        [] OTHER -> "<nil>"

\* two configured headers, one body field missing, a number turned into
\* text, and an incoming header that is not in the result
C37_Witness ==
    /\ execCall.op = "BodyFieldToHeaderPlugin.Execute"
    /\ DOMAIN execCall.headerToFieldMap = {"X-Model-Name", "X-Provider"}
    /\ DOMAIN execCall.argBody = {"model"}
    /\ execCall.argBody["model"].kind = "float64"
    /\ "x-request-id" \in DOMAIN execCall.argHeaders
    /\ execCall.ret.headers = [h \in {"X-Model-Name"} |-> "5"]

\* the model name of the bytes passed to HandleRequestBody
ArgModel == UnmarshalRequestBody(bodyCall.arg).Model

\* the effective LoRA tag of the call
EffectiveTag == IF bodyCall.LORA_TAG = "" THEN "lora" ELSE bodyCall.LORA_TAG

\* the call returned responses for a body that names a model
ModelServed ==
    /\ bodyCall.pc = "returned"
    /\ bodyCall.err = Nil
    /\ bodyCall.metric = "Success"

\* the handler rewrote the model name of the body
ModelRewritten == ModelServed /\ bodyCall.Model # ArgModel

\* the body a response list hands to the proxy: the body of its body
\* mutation, or the bytes the proxy already holds when there is none
DeliveredBody ==
    IF \E k \in 1..Len(bodyCall.ret) : bodyCall.ret[k].bodyMutation.type # "none"
    THEN (CHOOSE b \in {bodyCall.ret[k].bodyMutation.body : k \in 1..Len(bodyCall.ret)} :
            \E k \in 1..Len(bodyCall.ret) :
                /\ bodyCall.ret[k].bodyMutation.type # "none"
                /\ bodyCall.ret[k].bodyMutation.body = b)
    ELSE bodyCall.arg

\* C38: streaming and non-streaming mode deliver the same effective
\* request: whenever the model name is rewritten, the response carries the
\* rewritten body in either mode, with the same model header value.
C38_SameEffectiveRequest ==
    ModelRewritten =>
        /\ DeliveredBody = bodyCall.requestBodyBytes
        /\ \E k \in 1..Len(bodyCall.ret) :
              bodyCall.ret[k].setHeaders = SetModelHeader(bodyCall.prefix)

\* positions of the model name (1-based): the first occurrence of the tag,
\* the slashes before it and the slashes after it
TagAt == {i \in 1..Len(ArgModel) :
            ArgModel[i] = EffectiveTag /\ \A j \in 1..(i - 1) : ArgModel[j] # EffectiveTag}
SlashesBefore == {j \in 1..Len(ArgModel) :
                    ArgModel[j] = "/" /\ \E i \in TagAt : j < i}
SlashesAfter == {j \in 1..Len(ArgModel) :
                   ArgModel[j] = "/" /\ \E i \in TagAt : j > i}

Max(S) == CHOOSE x \in S : \A y \in S : y <= x
Min(S) == CHOOSE x \in S : \A y \in S : x <= y

\* C39: the model name is rewritten only when it contains the LoRA tag
\* with a "/" before the tag's first occurrence and a "/" after it: the
\* header value is then the name up to the last "/" before the tag, the
\* body's model field the name after the first "/" following the tag, and
\* every other body field is kept; otherwise the header value is the whole
\* name and the body is the one passed in.
C39_LoraRewrite ==
    ModelServed =>
        /\ \E k \in 1..Len(bodyCall.ret) :
              bodyCall.ret[k].setHeaders = SetModelHeader(bodyCall.prefix)
        /\ IF TagAt # {} /\ SlashesBefore # {} /\ SlashesAfter # {}
           THEN /\ bodyCall.prefix = SubSeq(ArgModel, 1, Max(SlashesBefore) - 1)
                /\ UnmarshalRequestBody(bodyCall.requestBodyBytes).Model
                     = SubSeq(ArgModel, Min(SlashesAfter) + 1, Len(ArgModel))
                /\ LET old == UnmarshalRaw(bodyCall.arg).raw
                       new == UnmarshalRaw(bodyCall.requestBodyBytes).raw
                   IN  /\ DOMAIN new = DOMAIN old
                       /\ \A f \in DOMAIN old \ {"model"} : new[f] = old[f]
                /\ bodyCall.streaming => DeliveredBody = bodyCall.requestBodyBytes
           ELSE /\ bodyCall.prefix = ArgModel
                /\ bodyCall.requestBodyBytes = bodyCall.arg
                /\ DeliveredBody = bodyCall.arg

\* model/lora/name after a prompt, streamed: header value model, body
\* model name, prompt kept
C39_Witness ==
    /\ ModelServed
    /\ bodyCall.streaming
    /\ ArgModel = <<"m", "/", "lora", "/", "adapter">>
    /\ bodyCall.arg.members[1] = PromptMember
    /\ bodyCall.prefix = <<"m">>
    /\ bodyCall.requestBodyBytes
         = JsonObject(<<ModelMember(<<"adapter">>), PromptMember>>)

====
